---- MODULE Spec2Model ----
(***************************************************************************)
(* Model of the indexing pipeline of mcp-codebase-search:                  *)
(*   IngestionService.ingestCodebase / rescanCodebase  (ingestion.service) *)
(*   TreeSitterParsingService.parseFile                (parsing service)   *)
(*   calculateFileHash                                 (file-hash)         *)
(* The LanceDB table of a codebase is a bag of rows; the directory is a    *)
(* map from file to content; each call of the service is a process with a  *)
(* program counter, one step per awaited operation.                        *)
(***************************************************************************)
EXTENDS Integers, Sequences, FiniteSets, Bags, TLC

\* ------------------------------------------------------------------ bounds
NumFiles == 2          \* files the directory can hold
MaxContent == 3        \* distinct contents a file can have (0 = no such file)
MaxFaults == 1         \* injected I/O, parse, embedding or storage failures per call

\* chunks per embedding and storage batch (config.ingestion.batchSize, scaled down)
batchSize == 2

Files == 1..NumFiles
Contents == 1..MaxContent
\* calls of the service that can exist; Sequential: the one a caller that
\* awaits each call before the next uses
Procs == {1, 2}
Sequential == {1}

VARIABLES
  disk,         \* disk[f]: content of file f in the codebase directory, 0 if absent
  tableExists,  \* the LanceDB table of the codebase exists
  table,        \* bag of the rows of the table
  run,          \* run[p]: locals and position of call p of the service
  last,         \* how the most recently ended call ended
  fsChanged,    \* the directory changed since the most recently ended call
  arg,          \* arguments of the token-counter call under study
  ret,          \* what that call returned
  hashCall,     \* locals and position of a call of calculateFileHashes
  search,       \* the SearchService: its cache, collaborators and current call
  counter       \* the token counter singleton, its instances and the calls made

vars == <<disk, tableExists, table, run, last, fsChanged, arg, ret, hashCall, search, counter>>

\* ------------------------------------------------------------ scanned file
\* ScannedFile.path: the path the scanner hands to readFile/createReadStream
absolutePath(f) == <<0, f>>

\* ScannedFile.relativePath: path relative to codebasePath
relativePath(f) == <<f>>

\* the file a path (of either form) names
FileOf(path) == path[Len(path)]

\* ------------------------------------------------------------ pure helpers
\* calculateFileHash: MD5 digest of the bytes (content c) of a file
calculateFileHash(c) == <<"md5", c>>

\* number of semantic chunks tree-sitter extraction yields for content c
\* (content 1 has no function/class/method node: no chunk)
NumChunksOf(c) == c - 1

\* createChunk: the chunk of node k of content c, parsed from the file at filePath
createChunk(filePath, c, k) == [filePath |-> filePath, src |-> c, idx |-> k]

\* parseFile: chunks extracted from the file at filePath holding content c
parseFile(filePath, c) == [k \in 1..NumChunksOf(c) |-> createChunk(filePath, c, k)]

\* chunks.map(chunk => ({...chunk, isTestFile, isLibraryFile, fileHash}))
chunksWithMetadata(chunks, fileHash) ==
  [k \in 1..Len(chunks) |->
     [filePath |-> chunks[k].filePath, src |-> chunks[k].src,
      idx |-> chunks[k].idx, fileHash |-> fileHash]]

Min(a, b) == IF a < b THEN a ELSE b

\* chunks.slice(i, i + batchSize) for the b-th batch (b = 1, 2, ...)
BatchOf(chunks, b) ==
  SubSeq(chunks, (b - 1) * batchSize + 1, Min(b * batchSize, Len(chunks)))

\* number of iterations of  for (i = 0; i < chunks.length; i += batchSize)
NumBatches(chunks) == (Len(chunks) + batchSize - 1) \div batchSize

Range(s) == {s[i] : i \in DOMAIN s}

RECURSIVE SeqOfFiles(_)
\* the files of S in scan order (the walker's order is fixed for a directory)
SeqOfFiles(S) ==
  IF S = {} THEN <<>>
  ELSE LET m == CHOOSE x \in S : \A y \in S : x <= y
       IN <<m>> \o SeqOfFiles(S \ {m})

RECURSIVE SeqOfPaths(_)
\* iteration order of a Map whose keys are the paths in S
SeqOfPaths(S) ==
  IF S = {} THEN <<>>
  ELSE LET m == CHOOSE x \in S : \A y \in S :
                   \/ FileOf(x) < FileOf(y)
                   \/ FileOf(x) = FileOf(y) /\ Len(x) <= Len(y)
       IN <<m>> \o SeqOfPaths(S \ {m})

\* fileScanner.scanDirectory + getSupportedFiles: the supported files now on disk
scanDirectory(d) == SeqOfFiles({f \in Files : d[f] # 0})

\* ---------------------------------------------------------------- storage
\* the row storeChunks builds from a chunk (id and timestamps omitted)
Row(chunk) == [filePath |-> chunk.filePath, fileHash |-> chunk.fileHash,
               src |-> chunk.src, idx |-> chunk.idx]

\* table.add(rows) / createTableWithData(rows)
AddRows(t, chunks) == t (+) SetToBag({Row(chunks[i]) : i \in DOMAIN chunks})

\* variant: the filter of the delete matches no row
DeleteWhere_NoMatch(t, path) == t

\* table.delete("`filePath` = '<path>'")
DeleteWhere(t, path) ==
  LET keep == {r \in DOMAIN t : r.filePath # path}
  IN [r \in keep |-> t[r]]

\* rows of bag t stored under filePath path
RowsAt(t, path) ==
  LET at == {r \in DOMAIN t : r.filePath = path}
  IN [r \in at |-> t[r]]

\* table.countRows() restricted to one filePath
CountAt(t, path) == BagCardinality(RowsAt(t, path))

\* ------------------------------------------------------------- call state
Idle ==
  [kind |-> "none", pc |-> "idle", sub |-> "hash",
   files |-> <<>>, i |-> 1, h |-> <<>>,
   stored |-> <<>>, cur |-> <<>>,
   added |-> <<>>, modified |-> <<>>, unchanged |-> <<>>, deleted |-> <<>>,
   toDelete |-> <<>>, toProcess |-> <<>>,
   chunksDeleted |-> 0, chunksAdded |-> 0,
   allChunks |-> <<>>, emb |-> <<>>, b |-> 1,
   faults |-> 0, failedFiles |-> {}, hashFailed |-> {}, fatal |-> "none",
   ops |-> <<>>, table0 |-> EmptyBag, prev |-> "none", progress |-> <<>>,
   noVector |-> {}]

\* no token-counter call is under study, nothing has been returned
NoCall == [fn |-> "none", text |-> <<>>, maxTokens |-> 0, overlapTokens |-> 0]
NoReturn == [done |-> FALSE, value |-> <<>>]

\* no call of calculateFileHashes is being made
NoHashing == [pc |-> "none"]

\* no SearchService has been constructed
NoSearch == [pc |-> "none"]

\* let tokenCounterInstance = null (0): no TokenCounter has been constructed,
\* neither getTokenCounter nor disposeTokenCounter has been called
NoTokenCounter == [tokenCounterInstance |-> 0, encoders |-> <<>>, log |-> <<>>]

Init ==
  /\ disk \in [Files -> 0..MaxContent]
  /\ tableExists = FALSE
  /\ table = EmptyBag
  /\ run = [p \in Procs |-> Idle]
  /\ last = "none"
  /\ fsChanged = FALSE
  /\ arg = NoCall
  /\ ret = NoReturn
  /\ hashCall = NoHashing
  /\ search = NoSearch
  /\ counter = NoTokenCounter

Upd(p, r) == run' = [run EXCEPT ![p] = r]

\* progressCallback?.(phase, current, total): the phases reported, in order,
\* a phase reported several times in a row noted once
Report(r, phase) ==
  [r EXCEPT !.progress = IF Len(@) > 0 /\ @[Len(@)] = phase THEN @
                         ELSE Append(@, phase)]

CanFault(r) == r.faults < MaxFaults

AllIdle == \A p \in Procs : run[p].pc = "idle"

\* ------------------------------------------------------------ environment
\* a file is created or overwritten between two calls of the service
FsWrite(f, c) ==
  /\ AllIdle
  /\ last # "none"
  /\ disk[f] # c
  /\ disk' = [disk EXCEPT ![f] = c]
  /\ fsChanged' = TRUE
  /\ UNCHANGED <<tableExists, table, run, last, arg, ret, hashCall, search, counter>>

\* a file is removed between two calls of the service
FsDelete(f) ==
  /\ AllIdle
  /\ last # "none"
  /\ disk[f] # 0
  /\ disk' = [disk EXCEPT ![f] = 0]
  /\ fsChanged' = TRUE
  /\ UNCHANGED <<tableExists, table, run, last, arg, ret, hashCall, search, counter>>

\* ------------------------------------------------- per-file chunking steps
\* variant: the parser is handed the relative path
ParsedPath_Relative(f) == relativePath(f)

\* the path handed to parser.parseFile, which createChunk writes into filePath
ParsedPath(f) == absolutePath(f)

\* const fileHash = await calculateFileHash(file.path)  succeeded
HashOk(r, f) == [r EXCEPT !.h = calculateFileHash(disk[f]), !.sub = "read"]

\* variant: the catch leaves the loop instead of going on with the next file
FileSkipped_Break(r, f) ==
  [r EXCEPT !.i = Len(r.toProcess) + 1, !.sub = "hash", !.faults = @ + 1,
            !.failedFiles = @ \cup {f}]

\* the try block of one file threw: the catch logs it and the loop goes on
FileSkipped(r, f) ==
  [r EXCEPT !.i = @ + 1, !.sub = "hash", !.faults = @ + 1,
            !.failedFiles = @ \cup {f}]

\* parseFile succeeded: its chunks are stamped and pushed onto allChunks
ParseOk(r, f) ==
  [r EXCEPT !.allChunks = @ \o chunksWithMetadata(parseFile(ParsedPath(f), disk[f]), r.h),
            !.i = @ + 1, !.sub = "hash"]

\* the first await of a call: what the previous call left behind is noted
Begin(kind, firstPc) ==
  [Idle EXCEPT !.kind = kind, !.pc = firstPc, !.table0 = table,
               !.prev = IF fsChanged THEN "changed" ELSE last]

\* ---------------------------------------------------------- ingestCodebase
IngestStart(p) ==
  /\ run[p].pc = "idle"
  /\ Upd(p, Report(Begin("ingest", "scan"), "Scanning directory"))
  /\ fsChanged' = FALSE
  /\ UNCHANGED <<disk, tableExists, table, last, arg, ret, hashCall, search, counter>>

\* Phase 1: scan the directory
IngestScan(p) ==
  LET r == run[p] IN
  /\ r.kind = "ingest" /\ r.pc = "scan"
  /\ Upd(p, [r EXCEPT !.files = scanDirectory(disk),
                      !.toProcess = scanDirectory(disk),
                      !.pc = "parse", !.i = 1])
  /\ UNCHANGED <<disk, tableExists, table, last, fsChanged, arg, ret, hashCall, search, counter>>

\* Phase 2, first await of an iteration: hash the file
IngestHashFile(p) ==
  LET r == run[p] IN
  /\ r.kind = "ingest" /\ r.pc = "parse" /\ r.sub = "hash"
  /\ r.i <= Len(r.toProcess)
  /\ LET f == r.toProcess[r.i]
         q == Report(r, "Parsing files")
     IN
       \/ disk[f] # 0 /\ Upd(p, HashOk(q, f))
       \/ (disk[f] = 0 \/ CanFault(r)) /\ Upd(p, FileSkipped(q, f))
  /\ UNCHANGED <<disk, tableExists, table, last, fsChanged, arg, ret, hashCall, search, counter>>

\* Phase 2, second await of an iteration: read and parse the file
IngestParseFile(p) ==
  LET r == run[p] IN
  /\ r.kind = "ingest" /\ r.pc = "parse" /\ r.sub = "read"
  /\ LET f == r.toProcess[r.i] IN
       \/ disk[f] # 0 /\ Upd(p, ParseOk(r, f))
       \/ (disk[f] = 0 \/ CanFault(r)) /\ Upd(p, FileSkipped(r, f))
  /\ UNCHANGED <<disk, tableExists, table, last, fsChanged, arg, ret, hashCall, search, counter>>

\* Phase 3: handleReingestion drops the table of an earlier ingestion
HandleReingestion(p) ==
  LET r == run[p] IN
  /\ r.kind = "ingest" /\ r.pc = "parse" /\ r.sub = "hash"
  /\ r.i > Len(r.toProcess)
  /\ \/ /\ ~tableExists
        /\ Upd(p, [r EXCEPT !.pc = "embed", !.b = 1])
        /\ UNCHANGED <<tableExists, table>>
     \/ /\ tableExists
        /\ tableExists' = FALSE
        /\ table' = EmptyBag
        /\ Upd(p, [r EXCEPT !.pc = "embed", !.b = 1,
                            !.ops = Append(@, [op |-> "drop", paths |-> {}])])
     \/ /\ tableExists /\ CanFault(r)
        /\ Upd(p, [r EXCEPT !.pc = "failed", !.fatal = "reingest", !.faults = @ + 1])
        /\ UNCHANGED <<tableExists, table>>
  /\ UNCHANGED <<disk, last, fsChanged, arg, ret, hashCall, search, counter>>

\* ------------------------------------------------- generateEmbeddingsBatch
\* the vector the embedding service computes for the content of a chunk
Vector(chunk) == <<"vector", chunk.src, chunk.idx>>

\* no vector: embeddings[j] is missing
NoVector == <<>>

\* what batchGenerateEmbeddings returns for the texts of a batch: one entry
\* per text, in order, none at the positions in drop
Embeddings(batch, drop) ==
  [j \in 1..Len(batch) |-> IF j \in drop THEN NoVector ELSE Vector(batch[j])]

\* { ...batch[j], embedding }
WithEmbedding(chunk, embedding) ==
  [filePath |-> chunk.filePath, src |-> chunk.src, idx |-> chunk.idx,
   fileHash |-> chunk.fileHash, embedding |-> embedding]

\* variant: a chunk is paired with the vector at its place in the output
Embedded_ByOutputIndex(batch, drop) ==
  LET embeddings == Embeddings(batch, drop)
      F[k \in 0..Len(batch)] ==
        IF k = 0 THEN <<>>
        ELSE IF embeddings[k] # NoVector
             THEN Append(F[k - 1], WithEmbedding(batch[k], embeddings[Len(F[k - 1]) + 1]))
             ELSE F[k - 1]
  IN F[Len(batch)]

\* the chunks of a batch that come back with a vector, each with the vector
\* at its own index, when those at the positions in drop get none (every
\* position when the batch call threw)
Embedded(batch, drop) ==
  LET embeddings == Embeddings(batch, drop)
      F[k \in 0..Len(batch)] ==
        IF k = 0 THEN <<>>
        ELSE IF embeddings[k] # NoVector
             THEN Append(F[k - 1], WithEmbedding(batch[k], embeddings[k]))
             ELSE F[k - 1]
  IN F[Len(batch)]

\* one iteration of the batch loop; progress is reported unless the call of
\* the embedding service threw
EmbedBatch(p) ==
  LET r == run[p] IN
  /\ r.pc = "embed" /\ r.b <= NumBatches(r.allChunks)
  /\ LET batch == BatchOf(r.allChunks, r.b) IN
     \E drop \in SUBSET (1..Len(batch)), threw \in BOOLEAN :
       /\ threw => drop = 1..Len(batch)
       /\ drop = {} \/ CanFault(r)
       /\ Upd(p, [(IF threw THEN r ELSE Report(r, "Generating embeddings"))
                    EXCEPT !.emb = @ \o Embedded(batch, drop),
                           !.noVector = @ \cup {(r.b - 1) * batchSize + j : j \in drop},
                           !.b = @ + 1,
                           !.faults = IF drop = {} THEN @ ELSE @ + 1])
  /\ UNCHANGED <<disk, tableExists, table, last, fsChanged, arg, ret, hashCall, search, counter>>

\* the loop is over: return chunksWithEmbeddings
EmbedReturn(p) ==
  LET r == run[p] IN
  /\ r.pc = "embed" /\ r.b > NumBatches(r.allChunks)
  /\ Upd(p, [r EXCEPT !.pc = "store", !.b = 1])
  /\ UNCHANGED <<disk, tableExists, table, last, fsChanged, arg, ret, hashCall, search, counter>>

\* ------------------------------------------------------------- storeChunks
\* one iteration of the batch loop: the first batch creates a missing table
StoreBatch(p) ==
  LET r == run[p] IN
  /\ r.pc = "store" /\ Len(r.emb) > 0 /\ r.b <= NumBatches(r.emb)
  /\ LET batch == BatchOf(r.emb, r.b) IN
       \/ /\ table' = AddRows(table, batch)
          /\ tableExists' = TRUE
          /\ Upd(p, [Report(r, "Storing chunks") EXCEPT !.b = @ + 1,
                              !.ops = Append(@, [op |-> "add",
                                 paths |-> {batch[k].filePath : k \in DOMAIN batch}])])
       \/ /\ CanFault(r)
          /\ Upd(p, [r EXCEPT !.pc = "failed", !.fatal = "store", !.faults = @ + 1])
          /\ UNCHANGED <<tableExists, table>>
  /\ UNCHANGED <<disk, last, fsChanged, arg, ret, hashCall, search, counter>>

\* storeChunks returns (at once when there is no chunk to store); rescanCodebase
\* then sets chunksAdded = allChunks.length
StoreReturn(p) ==
  LET r == run[p] IN
  /\ r.pc = "store"
  /\ Len(r.emb) = 0 \/ r.b > NumBatches(r.emb)
  /\ Upd(p, [r EXCEPT !.pc = "done",
                      !.chunksAdded = IF r.kind = "rescan" THEN Len(r.allChunks) ELSE 0])
  /\ UNCHANGED <<disk, tableExists, table, last, fsChanged, arg, ret, hashCall, search, counter>>

\* the call returns its statistics or throws IngestionError
Return(p) ==
  LET r == run[p] IN
  /\ r.pc \in {"done", "failed"}
  /\ Upd(p, Idle)
  /\ last' = IF r.pc = "failed" THEN "failed"
             ELSE IF r.kind = "ingest" THEN "ingest_ok" ELSE "rescan_ok"
  /\ fsChanged' = FALSE
  /\ UNCHANGED <<disk, tableExists, table, arg, ret, hashCall, search, counter>>

\* ---------------------------------------------------------- rescanCodebase
\* variant: phase 3 looks a scanned file up under the path the parser was
\* handed, the one its rows are stored under
LookupPath_AsStored(f) == absolutePath(f)

\* the key under which phase 3 looks a scanned file up in storedFileMap and
\* records it in currentFileMap
LookupPath(f) == relativePath(f)

\* the filePath values of the rows of table t
StoredPaths(t) == {r.filePath : r \in DOMAIN t}

\* the storedFileMap phase 1 can build from the rows of t: per filePath the
\* fileHash of the first row met (any row, the query order being the store's)
\* and the number of rows
StoredFileMaps(t) ==
  {[k \in StoredPaths(t) |-> [hash |-> hf[k], chunkCount |-> CountAt(t, k)]] :
     hf \in {g \in [StoredPaths(t) -> {r.fileHash : r \in DOMAIN t}] :
               \A k \in StoredPaths(t) :
                 \E r \in DOMAIN t : r.filePath = k /\ r.fileHash = g[k]}}

\* the branch phase 3 takes for a file with key path and hash currentHash
Classify(stored, path, currentHash) ==
  IF path \notin DOMAIN stored THEN "added"
  ELSE IF stored[path].hash # currentHash THEN "modified"
  ELSE "unchanged"

\* variant: the loop of phase 3 is left after its first iteration
ClassificationDone_AfterFirst(r) == r.i > Min(1, Len(r.files))

\* the loop over supportedFiles of phase 3 has run to its end
ClassificationDone(r) == r.i > Len(r.files)

\* "Detect deleted files": stored paths that currentFileMap does not hold
DeletedFiles(stored, cur) ==
  SeqOfPaths({path \in DOMAIN stored : path \notin DOMAIN cur})

\* variant: only the modified files are deleted from storage
FilesToDelete_ModifiedOnly(modified, deleted) ==
  [k \in 1..Len(modified) |-> relativePath(modified[k])]

\* filesToDelete = [...modifiedFiles.map(f => f.relativePath), ...deletedFiles]
FilesToDelete(modified, deleted) ==
  [k \in 1..Len(modified) |-> relativePath(modified[k])] \o deleted

\* filesToProcess = [...addedFiles, ...modifiedFiles]
FilesToProcess(added, modified) == added \o modified

\* variant: a rescan starts only while no other call is in progress
RescanStart_Exclusive(p) ==
  /\ AllIdle
  /\ Upd(p, Report(Begin("rescan", "retrieve"), "Retrieving stored hashes"))
  /\ fsChanged' = FALSE
  /\ UNCHANGED <<disk, tableExists, table, last, arg, ret, hashCall, search, counter>>

RescanStart(p) ==
  /\ run[p].pc = "idle"
  /\ Upd(p, Report(Begin("rescan", "retrieve"), "Retrieving stored hashes"))
  /\ fsChanged' = FALSE
  /\ UNCHANGED <<disk, tableExists, table, last, arg, ret, hashCall, search, counter>>

\* Phase 1: open the table and reduce its rows to storedFileMap
RescanRetrieve(p) ==
  LET r == run[p] IN
  /\ r.kind = "rescan" /\ r.pc = "retrieve"
  /\ \/ /\ ~tableExists
        /\ Upd(p, [r EXCEPT !.pc = "failed", !.fatal = "notfound"])
     \/ /\ tableExists
        /\ \E m \in StoredFileMaps(table) :
             Upd(p, [Report(r, "Scanning filesystem") EXCEPT !.stored = m, !.pc = "scan"])
     \/ /\ tableExists /\ CanFault(r)
        /\ Upd(p, [r EXCEPT !.pc = "failed", !.fatal = "query", !.faults = @ + 1])
  /\ UNCHANGED <<disk, tableExists, table, last, fsChanged, arg, ret, hashCall, search, counter>>

\* Phase 2: scan the directory
RescanScan(p) ==
  LET r == run[p] IN
  /\ r.kind = "rescan" /\ r.pc = "scan"
  /\ Upd(p, [Report(r, "Detecting changes") EXCEPT
               !.files = scanDirectory(disk), !.pc = "classify", !.i = 1])
  /\ UNCHANGED <<disk, tableExists, table, last, fsChanged, arg, ret, hashCall, search, counter>>

\* Phase 3, one iteration: hash the file and classify it, or skip it when
\* the hash cannot be computed
RescanClassify(p) ==
  LET r == run[p] IN
  /\ r.kind = "rescan" /\ r.pc = "classify" /\ ~ClassificationDone(r)
  /\ LET f == r.files[r.i]
         currentHash == calculateFileHash(disk[f])
         c == Classify(r.stored, LookupPath(f), currentHash)
     IN
       \/ /\ disk[f] # 0
          /\ Upd(p, [r EXCEPT
               !.cur = (LookupPath(f) :> currentHash) @@ @,
               !.added = IF c = "added" THEN Append(@, f) ELSE @,
               !.modified = IF c = "modified" THEN Append(@, f) ELSE @,
               !.unchanged = IF c = "unchanged" THEN Append(@, f) ELSE @,
               !.i = @ + 1])
       \/ /\ disk[f] = 0 \/ CanFault(r)
          /\ Upd(p, [r EXCEPT !.hashFailed = @ \cup {f}, !.faults = @ + 1,
                              !.i = @ + 1])
  /\ UNCHANGED <<disk, tableExists, table, last, fsChanged, arg, ret, hashCall, search, counter>>

\* end of phase 3: detect deleted files, build filesToDelete and filesToProcess
RescanDetectDeleted(p) ==
  LET r == run[p]
      deleted == DeletedFiles(r.stored, r.cur)
  IN
  /\ r.kind = "rescan" /\ r.pc = "classify" /\ ClassificationDone(r)
  /\ Upd(p, [r EXCEPT
       !.deleted = deleted,
       !.toDelete = FilesToDelete(r.modified, deleted),
       !.toProcess = FilesToProcess(r.added, r.modified),
       !.pc = IF Len(r.modified) > 0 \/ Len(deleted) > 0 THEN "delete" ELSE "process",
       !.i = 1])
  /\ UNCHANGED <<disk, tableExists, table, last, fsChanged, arg, ret, hashCall, search, counter>>

\* Phase 4, one iteration: count the stored chunks of the path, then delete them
RescanDelete(p) ==
  LET r == run[p] IN
  /\ r.kind = "rescan" /\ r.pc = "delete" /\ r.i <= Len(r.toDelete)
  /\ LET path == r.toDelete[r.i]
         n == IF path \in DOMAIN r.stored THEN r.stored[path].chunkCount ELSE 0
     IN
       \/ /\ table' = DeleteWhere(table, path)
          /\ Upd(p, [r EXCEPT !.chunksDeleted = @ + n, !.i = @ + 1,
                              !.ops = Append(@, [op |-> "del", paths |-> {path}])])
       \/ /\ CanFault(r)
          /\ Upd(p, [r EXCEPT !.chunksDeleted = @ + n, !.pc = "failed",
                              !.fatal = "delete", !.faults = @ + 1])
          /\ UNCHANGED table
  /\ UNCHANGED <<disk, tableExists, last, fsChanged, arg, ret, hashCall, search, counter>>

\* Phase 4 is over
RescanDeleteDone(p) ==
  LET r == run[p] IN
  /\ r.kind = "rescan" /\ r.pc = "delete" /\ r.i > Len(r.toDelete)
  /\ Upd(p, [r EXCEPT !.pc = "process", !.i = 1])
  /\ UNCHANGED <<disk, tableExists, table, last, fsChanged, arg, ret, hashCall, search, counter>>

\* Phase 5, first await of an iteration: hash the file for stamping
RescanHashFile(p) ==
  LET r == run[p] IN
  /\ r.kind = "rescan" /\ r.pc = "process" /\ r.sub = "hash"
  /\ r.i <= Len(r.toProcess)
  /\ LET f == r.toProcess[r.i]
         q == Report(r, "Processing files")
     IN
       \/ disk[f] # 0 /\ Upd(p, HashOk(q, f))
       \/ (disk[f] = 0 \/ CanFault(r)) /\ Upd(p, FileSkipped(q, f))
  /\ UNCHANGED <<disk, tableExists, table, last, fsChanged, arg, ret, hashCall, search, counter>>

\* Phase 5, second await of an iteration: read and parse the file
RescanParseFile(p) ==
  LET r == run[p] IN
  /\ r.kind = "rescan" /\ r.pc = "process" /\ r.sub = "read"
  /\ LET f == r.toProcess[r.i] IN
       \/ disk[f] # 0 /\ Upd(p, ParseOk(r, f))
       \/ (disk[f] = 0 \/ CanFault(r)) /\ Upd(p, FileSkipped(r, f))
  /\ UNCHANGED <<disk, tableExists, table, last, fsChanged, arg, ret, hashCall, search, counter>>

\* Phase 5, after the loop: embed and store only when there is a chunk
RescanProcessDone(p) ==
  LET r == run[p] IN
  /\ r.kind = "rescan" /\ r.pc = "process" /\ r.sub = "hash"
  /\ r.i > Len(r.toProcess)
  /\ Upd(p, [r EXCEPT !.pc = IF Len(r.allChunks) > 0 THEN "embed" ELSE "done",
                      !.b = 1])
  /\ UNCHANGED <<disk, tableExists, table, last, fsChanged, arg, ret, hashCall, search, counter>>

\* the process running a rescan is terminated after its first delete
Crash(p) ==
  LET r == run[p] IN
  /\ r.kind = "rescan" /\ r.ops # <<>>
  /\ r.pc \in {"delete", "process", "embed", "store"}
  /\ Upd(p, Idle)
  /\ last' = "crashed"
  /\ fsChanged' = FALSE
  /\ UNCHANGED <<disk, tableExists, table, arg, ret, hashCall, search, counter>>

\* ----------------------------------------------------------- specification
Next ==
  \/ \E f \in Files, c \in Contents : FsWrite(f, c)
  \/ \E f \in Files : FsDelete(f)
  \/ \E p \in Sequential : IngestStart(p)
  \/ \E p \in Sequential : IngestScan(p)
  \/ \E p \in Sequential : IngestHashFile(p)
  \/ \E p \in Sequential : IngestParseFile(p)
  \/ \E p \in Sequential : HandleReingestion(p)
  \/ \E p \in Sequential : EmbedBatch(p)
  \/ \E p \in Sequential : EmbedReturn(p)
  \/ \E p \in Sequential : StoreBatch(p)
  \/ \E p \in Sequential : StoreReturn(p)
  \/ \E p \in Sequential : Return(p)
  \/ \E p \in Sequential : RescanStart(p)
  \/ \E p \in Sequential : RescanRetrieve(p)
  \/ \E p \in Sequential : RescanScan(p)
  \/ \E p \in Sequential : RescanClassify(p)
  \/ \E p \in Sequential : RescanDetectDeleted(p)
  \/ \E p \in Sequential : RescanDelete(p)
  \/ \E p \in Sequential : RescanDeleteDone(p)
  \/ \E p \in Sequential : RescanHashFile(p)
  \/ \E p \in Sequential : RescanParseFile(p)
  \/ \E p \in Sequential : RescanProcessDone(p)
  \/ \E p \in Sequential : Crash(p)

Spec == Init /\ [][Next]_vars

\* ------------------------------------- directory written to during a call
\* another program overwrites the file call p is working on, after the call
\* has hashed it (createReadStream has ended) and before the parser reads it
FsWriteDuringCall(p, c) ==
  LET r == run[p] IN
  /\ r.pc \in {"parse", "process"} /\ r.sub = "read"
  /\ ~fsChanged                        \* at most one such write per call
  /\ LET f == r.toProcess[r.i] IN
       /\ disk[f] # c
       /\ disk' = [disk EXCEPT ![f] = c]
  /\ fsChanged' = TRUE
  /\ UNCHANGED <<tableExists, table, run, last, arg, ret, hashCall, search, counter>>

RaceNext ==
  \/ Next
  \/ \E p \in Sequential : \E c \in Contents : FsWriteDuringCall(p, c)

\* the service used by a sequential caller on a directory other programs write to
SpecRace == Init /\ [][RaceNext]_vars

\* ------------------------------------------------------------ token counter
\* bounds of the texts and budgets the split functions are applied to
MaxTextLen == 5        \* characters of a text
MaxBudget == 3         \* largest maxTokens
MaxOverlap == 2        \* largest overlapTokens

\* A string is a sequence of characters. "a" stands for a word piece that is
\* one token, "." for the sentence enders [.!?]; blank and newline are the
\* white space.
NL == "\n"
Alphabet == {"a", " ", ".", NL}
Texts == UNION {[1..n -> Alphabet] : n \in 0..MaxTextLen}

IsSpace(c) == c \in {" ", NL}
IsStop(c) == c = "."

\* countTokens: length of the encoder's output. The encoder makes one token
\* of each word piece, sentence ender and newline, and merges a blank into
\* the word piece that follows it; a blank that none follows is a token.
countTokens(text) ==
  Cardinality({i \in 1..Len(text) :
    \/ text[i] \in {"a", ".", NL}
    \/ text[i] = " " /\ (i = Len(text) \/ text[i + 1] # "a")})

Abs(n) == IF n < 0 THEN 0 - n ELSE n

RECURSIVE split(_, _)
\* String.prototype.split(sep), sep one character: the pieces before and
\* after each occurrence of sep (computed by halving at the occurrence
\* nearest to the middle, the pieces being the same wherever one starts)
split(s, sep) ==
  LET at == {i \in 1..Len(s) : s[i] = sep} IN
  IF at = {} THEN <<s>>
  ELSE LET mid == (Len(s) + 1) \div 2
           i == CHOOSE k \in at : \A j \in at :
                  \/ Abs(k - mid) < Abs(j - mid)
                  \/ Abs(k - mid) = Abs(j - mid) /\ k <= j
       IN split(SubSeq(s, 1, i - 1), sep) \o split(SubSeq(s, i + 1, Len(s)), sep)

RECURSIVE join(_, _)
\* Array.prototype.join(sep)
join(parts, sep) ==
  IF Len(parts) = 0 THEN <<>>
  ELSE IF Len(parts) = 1 THEN parts[1]
  ELSE LET h == Len(parts) \div 2 IN
       join(SubSeq(parts, 1, h), sep) \o <<sep>>
         \o join(SubSeq(parts, h + 1, Len(parts)), sep)

RECURSIVE trim(_)
\* String.prototype.trim()
trim(s) ==
  IF s = <<>> THEN s
  ELSE IF IsSpace(s[1]) THEN trim(Tail(s))
  ELSE IF IsSpace(s[Len(s)]) THEN trim(SubSeq(s, 1, Len(s) - 1))
  ELSE s

RECURSIVE splitWhitespace(_)
\* text.split(/\s+/)
splitWhitespace(s) ==
  IF \A i \in 1..Len(s) : ~IsSpace(s[i]) THEN <<s>>
  ELSE LET i == CHOOSE k \in 1..Len(s) :
                  IsSpace(s[k]) /\ \A j \in 1..(k - 1) : ~IsSpace(s[j])
           e == CHOOSE k \in i..Len(s) :
                  /\ \A j \in i..k : IsSpace(s[j])
                  /\ k = Len(s) \/ ~IsSpace(s[k + 1])
       IN <<SubSeq(s, 1, i - 1)>> \o splitWhitespace(SubSeq(s, e + 1, Len(s)))

RECURSIVE sentencesFrom(_, _)
\* the matches of /[^.!?]+[.!?]+|[^.!?]+$/g in s from position p on: a
\* character at which neither alternative matches is passed over
sentencesFrom(s, p) ==
  IF p > Len(s) THEN <<>>
  ELSE IF IsStop(s[p]) THEN sentencesFrom(s, p + 1)
  ELSE LET q == CHOOSE k \in p..Len(s) :
                  /\ \A j \in p..k : ~IsStop(s[j])
                  /\ k = Len(s) \/ IsStop(s[k + 1])
       IN IF q = Len(s) THEN <<SubSeq(s, p, q)>>
          ELSE LET e == CHOOSE k \in (q + 1)..Len(s) :
                          /\ \A j \in (q + 1)..k : IsStop(s[j])
                          /\ k = Len(s) \/ ~IsStop(s[k + 1])
               IN <<SubSeq(s, p, e)>> \o sentencesFrom(s, e + 1)

\* line.match(/[^.!?]+[.!?]+|[^.!?]+$/g) || [line]
matchSentences(line) ==
  LET m == sentencesFrom(line, 1) IN IF m = <<>> THEN <<line>> ELSE m

\* the locals of a bin-packing loop before its first iteration
EmptyBin == [chunks |-> <<>>, currentChunk |-> <<>>, currentTokens |-> 0]

\* variant: a word is added to the current bin whatever the bin holds
WordStep_NeverCloses(st, word, maxTokens) ==
  [st EXCEPT !.currentChunk = Append(@, word),
             !.currentTokens = @ + countTokens(word \o <<" ">>)]

\* splitByWords, body of  for (const word of words)
WordStep(st, word, maxTokens) ==
  LET wordTokens == countTokens(word \o <<" ">>) IN
  IF st.currentTokens + wordTokens > maxTokens /\ Len(st.currentChunk) > 0
  THEN [chunks |-> Append(st.chunks, join(st.currentChunk, " ")),
        currentChunk |-> <<word>>,
        currentTokens |-> wordTokens]
  ELSE [st EXCEPT !.currentChunk = Append(@, word),
                  !.currentTokens = @ + wordTokens]

RECURSIVE wordLoop(_, _, _, _)
wordLoop(words, i, maxTokens, st) ==
  IF i > Len(words) THEN st
  ELSE wordLoop(words, i + 1, maxTokens, WordStep(st, words[i], maxTokens))

\* splitByWords(text, maxTokens)
splitByWords(text, maxTokens) ==
  LET st == wordLoop(splitWhitespace(text), 1, maxTokens, EmptyBin) IN
  IF Len(st.currentChunk) > 0
  THEN Append(st.chunks, join(st.currentChunk, " "))
  ELSE st.chunks

\* splitLongLine, body of  for (const sentence of sentences); currentChunk
\* is a string here
SentenceStep(st, sentence, maxTokens) ==
  LET sentenceTokens == countTokens(sentence)
      open == st.currentChunk # <<>>
  IN
  IF sentenceTokens > maxTokens
  THEN [chunks |-> (IF open THEN Append(st.chunks, trim(st.currentChunk))
                    ELSE st.chunks) \o splitByWords(sentence, maxTokens),
        currentChunk |-> <<>>,
        currentTokens |-> IF open THEN 0 ELSE st.currentTokens]
  ELSE IF st.currentTokens + sentenceTokens > maxTokens /\ open
  THEN [chunks |-> Append(st.chunks, trim(st.currentChunk)),
        currentChunk |-> sentence,
        currentTokens |-> sentenceTokens]
  ELSE [st EXCEPT !.currentChunk = @ \o sentence,
                  !.currentTokens = @ + sentenceTokens]

RECURSIVE sentenceLoop(_, _, _, _)
sentenceLoop(sentences, i, maxTokens, st) ==
  IF i > Len(sentences) THEN st
  ELSE sentenceLoop(sentences, i + 1, maxTokens,
                    SentenceStep(st, sentences[i], maxTokens))

\* splitLongLine(line, maxTokens)
splitLongLine(line, maxTokens) ==
  LET st == sentenceLoop(matchSentences(line), 1, maxTokens, EmptyBin) IN
  IF st.currentChunk # <<>>
  THEN Append(st.chunks, trim(st.currentChunk))
  ELSE st.chunks

RECURSIVE overlapLoop(_, _, _, _, _)
\* getOverlapLines, the loop  for (i = lines.length - 1; i >= 0; i--)
overlapLoop(lines, i, overlapTokens, overlapLines, tokens) ==
  IF i < 1 THEN overlapLines
  ELSE LET lineTokens == countTokens(lines[i] \o <<NL>>) IN
       IF tokens + lineTokens > overlapTokens /\ Len(overlapLines) > 0
       THEN overlapLines
       ELSE overlapLoop(lines, i - 1, overlapTokens,
                        <<lines[i]>> \o overlapLines, tokens + lineTokens)

\* getOverlapLines that carries nothing over to the next chunk
getOverlapLines_None(lines, overlapTokens) == <<>>

\* getOverlapLines(lines, overlapTokens)
getOverlapLines(lines, overlapTokens) ==
  IF overlapTokens = 0 \/ Len(lines) = 0 THEN <<>>
  ELSE overlapLoop(lines, Len(lines), overlapTokens, <<>>, 0)

\* splitByTokens, body of  for (let i = 0; i < lines.length; i++)
LineStep(st, line, maxTokens, overlapTokens) ==
  LET lineTokens == countTokens(line \o <<NL>>) IN
  IF lineTokens > maxTokens
  THEN \* the overlap lines taken from the closed bin (lines 74-76) are
       \* replaced by the last sentence chunk (lines 85-86)
       LET closed == IF Len(st.currentChunk) > 0
                     THEN Append(st.chunks, join(st.currentChunk, NL))
                     ELSE st.chunks
           sentenceChunks == splitLongLine(line, maxTokens)
           lastSentenceChunk == sentenceChunks[Len(sentenceChunks)]
       IN [chunks |-> closed \o SubSeq(sentenceChunks, 1, Len(sentenceChunks) - 1),
           currentChunk |-> <<lastSentenceChunk>>,
           currentTokens |-> countTokens(lastSentenceChunk)]
  ELSE IF st.currentTokens + lineTokens > maxTokens /\ Len(st.currentChunk) > 0
  THEN LET overlapBuffer == getOverlapLines(st.currentChunk, overlapTokens)
           currentChunk == Append(overlapBuffer, line)
       IN [chunks |-> Append(st.chunks, join(st.currentChunk, NL)),
           currentChunk |-> currentChunk,
           currentTokens |-> countTokens(join(currentChunk, NL))]
  ELSE [st EXCEPT !.currentChunk = Append(@, line),
                  !.currentTokens = @ + lineTokens]

RECURSIVE lineLoop(_, _, _, _, _, _)
\* the locals after iterations lo..hi of the loop, entered with locals st
\* (the iterations lo..h first, then the iterations h+1..hi)
lineLoop(lines, lo, hi, maxTokens, overlapTokens, st) ==
  IF lo > hi THEN st
  ELSE IF lo = hi THEN LineStep(st, lines[lo], maxTokens, overlapTokens)
  ELSE LET h == (lo + hi) \div 2
           half == lineLoop(lines, lo, h, maxTokens, overlapTokens, st)
       IN IF half.currentTokens >= 0   \* always true: has half computed first
          THEN lineLoop(lines, h + 1, hi, maxTokens, overlapTokens, half)
          ELSE half

\* splitByTokens(text, maxTokens, overlapTokens)
splitByTokens(text, maxTokens, overlapTokens) ==
  IF countTokens(text) <= maxTokens THEN <<text>>
  ELSE LET lines == split(text, NL)
           st == lineLoop(lines, 1, Len(lines), maxTokens, overlapTokens, EmptyBin)
       IN
       IF Len(st.currentChunk) > 0
       THEN Append(st.chunks, join(st.currentChunk, NL))
       ELSE st.chunks

\* ------------------------------------------------------ splitOversizedChunks
\* `${chunk.chunkType}_part_${i + 1}`; a chunk type is the tuple of the parts
\* of its name, <<kind>> for a raw kind
PartType_ZeroBased(chunkType, i) == chunkType \o <<"part", i - 1>>

PartType(chunkType, i) == chunkType \o <<"part", i>>

\* the sub-chunks made of the strings splitTexts[i..] of an oversized chunk,
\* the first of them starting at line currentLine
RECURSIVE subChunks(_, _, _, _)
subChunks(chunk, splitTexts, i, currentLine) ==
  IF i > Len(splitTexts) THEN <<>>
  ELSE LET splitText == splitTexts[i]
           splitLines == Len(split(splitText, NL))
       IN <<[chunk EXCEPT
               !.content = splitText,
               !.startLine = currentLine,
               !.endLine = currentLine + splitLines - 1,
               !.chunkType = IF Len(splitTexts) > 1 THEN PartType(@, i) ELSE @]>>
          \o subChunks(chunk, splitTexts, i + 1, currentLine + splitLines)

RECURSIVE splitOversizedChunks(_, _, _)
\* splitOversizedChunks(chunks) under config.ingestion.maxChunkTokens = maxTokens
\* and config.ingestion.chunkOverlapTokens = overlapTokens
splitOversizedChunks(chunks, maxTokens, overlapTokens) ==
  IF Len(chunks) = 0 THEN <<>>
  ELSE LET chunk == Head(chunks) IN
       (IF countTokens(chunk.content) <= maxTokens THEN <<chunk>>
        ELSE subChunks(chunk, splitByTokens(chunk.content, maxTokens, overlapTokens),
                       1, chunk.startLine))
       \o splitOversizedChunks(Tail(chunks), maxTokens, overlapTokens)

\* the chunk extraction makes of a unit of kind chunkType with text content
\* that starts at line startLine of the first file
RawChunk(content, chunkType, startLine) ==
  [content |-> content, startLine |-> startLine,
   endLine |-> startLine + Len(split(content, NL)) - 1,
   chunkType |-> <<chunkType>>, language |-> "typescript",
   filePath |-> absolutePath(1)]

\* the units handed to splitOversizedChunks: a class holding the text under
\* study, followed by a one-token method
RawChunks(text) ==
  <<RawChunk(text, "class", 1), RawChunk(<<"a">>, "method", 7)>>

\* ------------------------------------------------ the documented example
\* "Large TypeScript class (1500 tokens)" split under maxChunkTokens = 500 and
\* chunkOverlapTokens = 50
ExampleTokens == 1500
ExampleMaxChunkTokens == 500
ExampleOverlapTokens == 50

\* widest line, in word pieces, of the class bodies tried
MaxLineWidth == 9

\* a class body of ExampleTokens tokens whose lines hold w word pieces each
\* (w + 1 tokens with the newline); the last line holds the remainder and
\* has no newline
ClassBody(w) ==
  LET n == (ExampleTokens - 1) \div (w + 1)
      r == ExampleTokens - n * (w + 1)
  IN [k \in 1..(n * (w + 1)) |-> IF k % (w + 1) = 0 THEN NL ELSE "a"]
     \o [k \in 1..r |-> "a"]

ExampleCalls ==
  {[fn |-> "splitOversizedChunks", text |-> ClassBody(w),
    maxTokens |-> ExampleMaxChunkTokens, overlapTokens |-> ExampleOverlapTokens] :
     w \in 1..MaxLineWidth}

\* ------------------------------------------- token counter: specification
Calls ==
  [fn : {"splitByTokens", "getOverlapLines", "splitOversizedChunks"},
   text : Texts, maxTokens : 1..MaxBudget, overlapTokens : 0..MaxOverlap]

\* a call with arguments from Calls is about to be made; the service is idle
SplitInit ==
  /\ disk = [f \in Files |-> 0]
  /\ tableExists = FALSE
  /\ table = EmptyBag
  /\ run = [p \in Procs |-> Idle]
  /\ last = "none"
  /\ fsChanged = FALSE
  /\ arg \in Calls \cup ExampleCalls
  /\ ret = NoReturn
  /\ hashCall = NoHashing
  /\ search = NoSearch
  /\ counter = NoTokenCounter

Returns(value) ==
  /\ ~ret.done
  /\ ret' = [done |-> TRUE, value |-> value]
  /\ UNCHANGED <<disk, tableExists, table, run, last, fsChanged, arg, hashCall, search, counter>>

SplitByTokens ==
  /\ arg.fn = "splitByTokens"
  /\ Returns(splitByTokens(arg.text, arg.maxTokens, arg.overlapTokens))

\* getOverlapLines applied to the lines of the text
GetOverlapLines ==
  /\ arg.fn = "getOverlapLines"
  /\ Returns(getOverlapLines(split(arg.text, NL), arg.overlapTokens))

SplitOversizedChunks ==
  /\ arg.fn = "splitOversizedChunks"
  /\ Returns(splitOversizedChunks(RawChunks(arg.text), arg.maxTokens, arg.overlapTokens))

SplitNext ==
  \/ SplitByTokens
  \/ GetOverlapLines
  \/ SplitOversizedChunks

SpecSplit == SplitInit /\ [][SplitNext]_vars

\* ------------------------------------------------------ calculateFileHashes
MaxPaths == 3
MaxBytes == 2
MaxConcurrency == 2

\* the paths handed to calculateFileHashes, named by their place in the list
\* (no path twice, as in the list of scanned files), and the lists of them
HashPaths == 1..MaxPaths
PathLists == {[k \in 1..n |-> k] : n \in 0..MaxPaths}

\* what is at each path: the bytes of the file, 0 if there is no file
FileSystems == [HashPaths -> 0..MaxBytes]

\* filePaths.slice(from, to), 0 <= from <= to
slice(s, from, to) == SubSeq(s, from + 1, Min(to, Len(s)))

RECURSIVE batchLoop(_, _, _, _)
\* for (let i = 0; i < filePaths.length; i += concurrency) batches.push(...)
batchLoop(filePaths, concurrency, i, batches) ==
  IF i < Len(filePaths)
  THEN batchLoop(filePaths, concurrency, i + concurrency,
                 Append(batches, slice(filePaths, i, i + concurrency)))
  ELSE batches

\* batches that put every path into one batch
Batches_Whole(filePaths, concurrency) ==
  IF Len(filePaths) = 0 THEN <<>> ELSE <<filePaths>>

\* the batches calculateFileHashes splits filePaths into
Batches(filePaths, concurrency) == batchLoop(filePaths, concurrency, 0, <<>>)

\* a promise of batch.map(...) that has not settled
Pending == [state |-> "pending"]

\* return null: the hash of the file failed and was caught
Null == [state |-> "null"]

\* a task result whose hash is taken from the path instead of the bytes
TaskResult_OfPath(files, filePath) ==
  [state |-> "value", filePath |-> filePath, hash |-> calculateFileHash(filePath)]

\* return { filePath, hash }, hash the digest of the bytes read from filePath
TaskResult(files, filePath) ==
  [state |-> "value", filePath |-> filePath, hash |-> calculateFileHash(files[filePath])]

\* results.set(filePath, hash)
MapSet(m, k, v) == [x \in DOMAIN m \cup {k} |-> IF x = k THEN v ELSE m[x]]

\* the empty Map
EmptyMap == [x \in {} |-> 0]

RECURSIVE setResults(_, _, _)
\* writing that stops at the first task that returned null
setResults_StopAtNull(results, batchResults, k) ==
  IF k > Len(batchResults) \/ batchResults[k] = Null THEN results
  ELSE setResults(MapSet(results, batchResults[k].filePath, batchResults[k].hash),
                  batchResults, k + 1)

\* for (const result of batchResults) if (result) results.set(...)
setResults(results, batchResults, k) ==
  IF k > Len(batchResults) THEN results
  ELSE setResults(IF batchResults[k] = Null THEN results
                  ELSE MapSet(results, batchResults[k].filePath, batchResults[k].hash),
                  batchResults, k + 1)

\* batch.map(async ...): every hash of batch b is started at once
StartBatch(h, b) ==
  [h EXCEPT !.pc = "batch", !.b = b,
            !.promises = [k \in 1..Len(h.batches[b]) |-> Pending],
            !.started = @ \cup {<<b, k>> : k \in 1..Len(h.batches[b])}]

\* return results
ReturnResults(h) == [h EXCEPT !.pc = "returned", !.promises = <<>>]

\* calculateFileHashes(filePaths, concurrency) is called on the files there are
CalculateFileHashes(files, filePaths, concurrency) ==
  /\ hashCall.pc = "none"
  /\ LET h == [pc |-> "called", files |-> files, filePaths |-> filePaths,
               concurrency |-> concurrency,
               batches |-> Batches(filePaths, concurrency), b |-> 0,
               promises |-> <<>>, results |-> EmptyMap,
               started |-> {}, settled |-> {}, resolved |-> {}, written |-> {}]
     IN hashCall' = IF Len(h.batches) = 0 THEN ReturnResults(h) ELSE StartBatch(h, 1)
  /\ UNCHANGED <<disk, tableExists, table, run, last, fsChanged, arg, ret, search, counter>>

\* the promises of the current batch that are in flight
InFlight(h) == {k \in DOMAIN h.promises : h.promises[k] = Pending}

\* stream 'end' of task k of the batch: resolve(digest)
HashResolves(k) ==
  /\ hashCall.pc = "batch"
  /\ k \in InFlight(hashCall)
  /\ LET filePath == hashCall.batches[hashCall.b][k] IN
     /\ hashCall.files[filePath] # 0
     /\ hashCall' = [hashCall EXCEPT
                       !.promises[k] = TaskResult(hashCall.files, filePath),
                       !.settled = @ \cup {<<hashCall.b, k>>},
                       !.resolved = @ \cup {[task |-> <<hashCall.b, k>>,
                                             filePath |-> filePath,
                                             hash |-> TaskResult(hashCall.files, filePath).hash]}]
  /\ UNCHANGED <<disk, tableExists, table, run, last, fsChanged, arg, ret, search, counter>>

\* stream 'error' of task k of the batch (no such file, or any other read
\* error): reject(error), caught by the task
HashRejects(k) ==
  /\ hashCall.pc = "batch"
  /\ k \in InFlight(hashCall)
  /\ hashCall' = [hashCall EXCEPT !.promises[k] = Null,
                                  !.settled = @ \cup {<<hashCall.b, k>>}]
  /\ UNCHANGED <<disk, tableExists, table, run, last, fsChanged, arg, ret, search, counter>>

\* await Promise.all(promises) returns; the results of the batch are written
\* and the next batch is started, or the call returns
BatchJoined ==
  /\ hashCall.pc = "batch"
  /\ InFlight(hashCall) = {}
  /\ LET h == [hashCall EXCEPT
                 !.results = setResults(@, hashCall.promises, 1),
                 !.written = @ \cup {<<hashCall.b, k>> : k \in
                                {j \in DOMAIN hashCall.promises : hashCall.promises[j] # Null}}]
     IN hashCall' = IF hashCall.b < Len(hashCall.batches)
                    THEN StartBatch(h, hashCall.b + 1)
                    ELSE ReturnResults(h)
  /\ UNCHANGED <<disk, tableExists, table, run, last, fsChanged, arg, ret, search, counter>>

HashNext ==
  \/ \E files \in FileSystems : \E filePaths \in PathLists :
       \E concurrency \in 1..MaxConcurrency :
         CalculateFileHashes(files, filePaths, concurrency)
  \/ \E k \in 1..MaxPaths : HashResolves(k)
  \/ \E k \in 1..MaxPaths : HashRejects(k)
  \/ BatchJoined

\* no call has been made yet; the service is idle
HashInit ==
  /\ disk = [f \in Files |-> 0]
  /\ tableExists = FALSE
  /\ table = EmptyBag
  /\ run = [p \in Procs |-> Idle]
  /\ last = "none"
  /\ fsChanged = FALSE
  /\ arg = NoCall
  /\ ret = NoReturn
  /\ hashCall = NoHashing
  /\ search = NoSearch
  /\ counter = NoTokenCounter

SpecHash == HashInit /\ [][HashNext]_vars

\* ------------------------------- calculateFileHashes: the batch split loop
\* least value of the concurrency argument tried
MinConcurrency == 0 - 1

\* iterations of the split loop whose batches and index are kept exactly; a
\* loop that ends makes MaxPaths of them at most
MaxSplitSteps == MaxPaths + 1

\* a relative index of Array.prototype.slice brought into 0..len
sliceIndex(len, k) ==
  IF k < 0 THEN (IF len + k < 0 THEN 0 ELSE len + k)
  ELSE Min(k, len)

\* filePaths.slice(start, end) for any integers start and end
sliceAny(s, start, end) ==
  SubSeq(s, sliceIndex(Len(s), start) + 1, sliceIndex(Len(s), end))

\* calculateFileHashes(filePaths, concurrency) is called: results and batches
\* are empty, i = 0
SplitCalled(files, filePaths, concurrency) ==
  /\ hashCall.pc = "none"
  /\ hashCall' = [pc |-> "split", files |-> files, filePaths |-> filePaths,
                  concurrency |-> concurrency, i |-> 0, iterations |-> 0,
                  batches |-> <<>>, b |-> 0,
                  promises |-> <<>>, results |-> EmptyMap,
                  started |-> {}, settled |-> {}, resolved |-> {}, written |-> {}]
  /\ UNCHANGED <<disk, tableExists, table, run, last, fsChanged, arg, ret, search, counter>>

\* one iteration of  for (let i = 0; i < filePaths.length; i += concurrency).
\* Past MaxSplitSteps iterations the batches pushed are no longer recorded, an
\* index below -MaxSplitSteps is recorded as -MaxSplitSteps, and the number
\* of iterations is recorded as MaxSplitSteps or MaxSplitSteps + 1 in turn.
SplitStep ==
  /\ hashCall.pc = "split"
  /\ hashCall.i < Len(hashCall.filePaths)
  /\ LET exact == hashCall.iterations < MaxSplitSteps
         next == hashCall.i + hashCall.concurrency
     IN hashCall' = [hashCall EXCEPT
          !.batches = IF exact
                      THEN Append(@, sliceAny(hashCall.filePaths, hashCall.i, next))
                      ELSE @,
          !.i = IF next < 0 - MaxSplitSteps THEN 0 - MaxSplitSteps ELSE next,
          !.iterations = IF exact THEN @ + 1
                         ELSE IF @ = MaxSplitSteps THEN MaxSplitSteps + 1
                         ELSE MaxSplitSteps]
  /\ UNCHANGED <<disk, tableExists, table, run, last, fsChanged, arg, ret, search, counter>>

\* the loop condition is false: the batches are processed, the first one
\* started, or the empty map returned when there is none
SplitDone ==
  /\ hashCall.pc = "split"
  /\ hashCall.i >= Len(hashCall.filePaths)
  /\ hashCall' = IF Len(hashCall.batches) = 0 THEN ReturnResults(hashCall)
                 ELSE StartBatch(hashCall, 1)
  /\ UNCHANGED <<disk, tableExists, table, run, last, fsChanged, arg, ret, search, counter>>

HashLoopNext ==
  \/ \E files \in FileSystems : \E filePaths \in PathLists :
       \E concurrency \in MinConcurrency..MaxConcurrency :
         SplitCalled(files, filePaths, concurrency)
  \/ SplitStep
  \/ SplitDone
  \/ \E k \in 1..MaxPaths : HashResolves(k)
  \/ \E k \in 1..MaxPaths : HashRejects(k)
  \/ BatchJoined

\* the call is made and the event loop runs whatever can run: the loop goes
\* on, every stream ends or fails, every await returns
SpecHashLoop == HashInit /\ [][HashLoopNext]_vars /\ WF_vars(HashLoopNext)

\* ------------------------------------------------------------ SearchService
MaxQueries == 1
MaxResults == 2
MaxTime == 2
MaxIndex == 1
MaxSearches == 2

\* config.search.defaultMaxResults and config.search.cacheTimeoutSeconds
defaultMaxResults == 2
cacheTimeoutSeconds == 1

\* SearchParams: '' stands for an absent string, 0 for an absent maxResults
SearchParams ==
  [query : 1..MaxQueries, codebaseName : {"", "cb"}, language : {"", "ts"},
   maxResults : 0..MaxResults]

\* a || b  for a number a
OrElse(a, b) == IF a = 0 THEN b ELSE a

\* a || null  for a string a
OrNull(a) == IF a = "" THEN "null" ELSE a

\* what the parameters of a search ask for: the query, the codebase, the
\* language and the effective number of results
Asked(params) ==
  <<params.query, params.codebaseName, params.language,
    OrElse(params.maxResults, defaultMaxResults)>>

\* a cache key that leaves the language out
getCacheKey_NoLanguage(params) ==
  [query |-> params.query, codebaseName |-> OrNull(params.codebaseName),
   language |-> "null",
   maxResults |-> OrElse(params.maxResults, defaultMaxResults)]

\* getCacheKey(params)
getCacheKey(params) ==
  [query |-> params.query, codebaseName |-> OrNull(params.codebaseName),
   language |-> OrNull(params.language),
   maxResults |-> OrElse(params.maxResults, defaultMaxResults)]

\* what the collections hold at version index of the vector store for the
\* parameters; answered is FALSE when the query of the collection failed and
\* was skipped
QueryResults(params, index, answered) ==
  [results |-> IF answered
               THEN <<[query |-> params.query, codebaseName |-> params.codebaseName,
                       language |-> params.language, index |-> index]>>
               ELSE <<>>,
   limit |-> OrElse(params.maxResults, defaultMaxResults)]

\* emptyResults
EmptyResults == [results |-> <<>>, limit |-> 0]

\* no entry of the cache, no earlier answer
None == [timestamp |-> 0 - 1]

\* cache.get(cacheKey)
CacheGet(cache, key) == IF key \in DOMAIN cache THEN cache[key] ELSE None

\* cache.delete(cacheKey)
CacheDelete(cache, key) == [k \in DOMAIN cache \ {key} |-> cache[k]]

\* now - entry.timestamp > cacheTimeoutMs
Expired(entry, now) == now - entry.timestamp > cacheTimeoutSeconds

\* the service after construction, with its collaborators: the embedding
\* service (initialized or not) and the vector store (index 0: no collection)
NewService(initialized, index) ==
  [pc |-> "idle", cache |-> EmptyMap, now |-> 0, initialized |-> initialized,
   index |-> index, params |-> <<>>, startTime |-> 0, calls |-> 0,
   embedded |-> FALSE, queried |-> FALSE,
   reportedNotInitialized |-> FALSE, earlier |-> None,
   answers |-> EmptyMap, cleared |-> {},
   ret |-> [outcome |-> "none"]]

SearchInit ==
  /\ disk = [f \in Files |-> 0]
  /\ tableExists = FALSE
  /\ table = EmptyBag
  /\ run = [p \in Procs |-> Idle]
  /\ last = "none"
  /\ fsChanged = FALSE
  /\ arg = NoCall
  /\ ret = NoReturn
  /\ hashCall = NoHashing
  /\ counter = NoTokenCounter
  /\ \E initialized \in BOOLEAN : \E index \in 0..MaxIndex :
       search = NewService(initialized, index)

\* what a call that ends hands back, with what it did on the way
Returned(s, outcome, results) ==
  [s EXCEPT !.pc = "idle",
            !.ret = [outcome |-> outcome, results |-> results,
                     params |-> s.params, startTime |-> s.startTime,
                     embedded |-> s.embedded, queried |-> s.queried,
                     reportedNotInitialized |-> s.reportedNotInitialized,
                     earlier |-> s.earlier]]

\* search(params), up to its first await: a cache hit is returned at once, a
\* miss asks the embedding service whether it is initialized
Search(params) ==
  LET key == getCacheKey(params)
      entry == CacheGet(search.cache, key)
      hit == entry # None /\ ~Expired(entry, search.now)
      s == [search EXCEPT
              !.params = params, !.startTime = search.now, !.calls = @ + 1,
              !.embedded = FALSE, !.queried = FALSE,
              !.reportedNotInitialized = ~search.initialized,
              !.earlier = IF Asked(params) \in DOMAIN search.answers \ search.cleared
                          THEN search.answers[Asked(params)] ELSE None,
              !.cache = IF entry # None /\ ~hit THEN CacheDelete(@, key) ELSE @]
  IN
  /\ search.pc = "idle"
  /\ search.calls < MaxSearches
  /\ search' = IF hit THEN Returned(s, "cached", entry.results)
               ELSE IF ~search.initialized THEN Returned(s, "SearchError", EmptyResults)
               ELSE [s EXCEPT !.pc = "embedding"]
  /\ UNCHANGED <<disk, tableExists, table, run, last, fsChanged, arg, ret, hashCall, counter>>

\* await embeddingService.generateEmbedding(params.query) returns or throws
SearchEmbedded ==
  /\ search.pc = "embedding"
  /\ LET s == [search EXCEPT !.embedded = TRUE] IN
       \/ search' = [s EXCEPT !.pc = "collections"]
       \/ search' = Returned(s, "SearchError", EmptyResults)
  /\ UNCHANGED <<disk, tableExists, table, run, last, fsChanged, arg, ret, hashCall, counter>>

\* await getCollectionsToSearch(params.codebaseName) returns or throws; with
\* no collection the empty result is returned and not cached
SearchCollections ==
  /\ search.pc = "collections"
  /\ \/ search' = IF search.index = 0 THEN Returned(search, "empty", EmptyResults)
                  ELSE [search EXCEPT !.pc = "querying"]
     \/ search' = Returned(search, "SearchError", EmptyResults)
  /\ UNCHANGED <<disk, tableExists, table, run, last, fsChanged, arg, ret, hashCall, counter>>

\* the collections have been queried (a failing one skipped): the results are
\* sorted, limited, cached under the key of the parameters and returned
SearchQueried ==
  /\ search.pc = "querying"
  /\ \E answered \in BOOLEAN :
       LET results == QueryResults(search.params, search.index, answered)
           key == getCacheKey(search.params)
           entry == [results |-> results, timestamp |-> search.now]
           s == [search EXCEPT !.queried = TRUE,
                               !.cache = MapSet(@, key, entry),
                               !.answers = MapSet(@, Asked(search.params), entry),
                               !.cleared = @ \ {Asked(search.params)}]
       IN search' = Returned(s, "store", results)
  /\ UNCHANGED <<disk, tableExists, table, run, last, fsChanged, arg, ret, hashCall, counter>>

\* clearCache()
ClearCache ==
  /\ search.pc # "none"
  /\ search.cache # EmptyMap
  /\ search' = [search EXCEPT !.cache = EmptyMap, !.cleared = DOMAIN search.answers]
  /\ UNCHANGED <<disk, tableExists, table, run, last, fsChanged, arg, ret, hashCall, counter>>

\* Date.now() advances between two calls
Tick ==
  /\ search.pc = "idle"
  /\ search.now < MaxTime
  /\ search' = [search EXCEPT !.now = @ + 1]
  /\ UNCHANGED <<disk, tableExists, table, run, last, fsChanged, arg, ret, hashCall, counter>>

\* embeddingService.isInitialized() changes its answer between two calls
EmbeddingServiceChanges ==
  /\ search.pc = "idle"
  /\ search' = [search EXCEPT !.initialized = ~@]
  /\ UNCHANGED <<disk, tableExists, table, run, last, fsChanged, arg, ret, hashCall, counter>>

\* the vector store changes between two calls: a collection is created or
\* re-indexed
IndexChanges ==
  /\ search.pc = "idle"
  /\ search.index < MaxIndex
  /\ search' = [search EXCEPT !.index = @ + 1]
  /\ UNCHANGED <<disk, tableExists, table, run, last, fsChanged, arg, ret, hashCall, counter>>

SearchNext ==
  \/ \E params \in SearchParams : Search(params)
  \/ SearchEmbedded
  \/ SearchCollections
  \/ SearchQueried
  \/ ClearCache
  \/ Tick
  \/ EmbeddingServiceChanges
  \/ IndexChanges

SpecSearch == SearchInit /\ [][SearchNext]_vars

\* ------------------------------------------------------------ extractChunks
\* nodes of the largest syntax tree tried
MaxNodes == 4

\* Language
Languages == {"csharp", "java", "javascript", "typescript", "python"}

\* NODE_TYPE_MAPPINGS[language]: grammar node type -> ChunkType
NODE_TYPE_MAPPINGS ==
  [language \in Languages |->
     CASE language = "csharp" ->
            ("class_declaration" :> "class") @@ ("method_declaration" :> "method")
            @@ ("property_declaration" :> "property")
            @@ ("interface_declaration" :> "interface")
       [] language = "java" ->
            ("class_declaration" :> "class") @@ ("method_declaration" :> "method")
            @@ ("field_declaration" :> "field")
            @@ ("interface_declaration" :> "interface")
       [] language = "javascript" ->
            ("function_declaration" :> "function") @@ ("arrow_function" :> "function")
            @@ ("class_declaration" :> "class") @@ ("method_definition" :> "method")
       [] language = "typescript" ->
            ("function_declaration" :> "function") @@ ("arrow_function" :> "function")
            @@ ("class_declaration" :> "class") @@ ("method_definition" :> "method")
            @@ ("interface_declaration" :> "interface")
       [] language = "python" ->
            ("function_definition" :> "function") @@ ("class_definition" :> "class")]

\* the value of a property an object does not have
undefined == "undefined"

\* nodeTypeMappings[node.type]
chunkTypeOf(language, type) ==
  IF type \in DOMAIN NODE_TYPE_MAPPINGS[language]
  THEN NODE_TYPE_MAPPINGS[language][type] ELSE undefined

\* grammar types of the nodes of the trees tried: "block" has no entry in any
\* table, each of the others has one in some tables and none in the others
NodeTypes == {"class_definition", "function_definition", "method_definition", "block"}

\* a syntax tree: node 1 is tree.rootNode, tree[n].parent is the node n is a
\* child of (0: null); the children of a node are ordered by their numbers
Trees ==
  UNION {{t \in [1..n -> [type : NodeTypes, parent : 0..(n - 1)]] :
            /\ t[1].parent = 0
            /\ \A k \in 2..n : t[k].parent \in 1..(k - 1)} : n \in 1..MaxNodes}

\* node.childCount and node.child(i), i counted from 1
childCount(tree, node) == Cardinality({k \in DOMAIN tree : tree[k].parent = node})

child(tree, node, i) ==
  CHOOSE k \in DOMAIN tree :
    /\ tree[k].parent = node
    /\ Cardinality({j \in 1..(k - 1) : tree[j].parent = node}) = i - 1

\* isInsideClass that looks at the parent of the node only
isInsideClass_ParentOnly(tree, node) ==
  /\ tree[node].parent # 0
  /\ tree[tree[node].parent].type = "class_definition"

RECURSIVE isInsideClassFrom(_, _)
\* isInsideClass, the loop  while (current)  entered with node current
isInsideClassFrom(tree, current) ==
  IF current = 0 THEN FALSE
  ELSE IF tree[current].type = "class_definition" THEN TRUE
  ELSE isInsideClassFrom(tree, tree[current].parent)

\* isInsideClass(node)
isInsideClass(tree, node) == isInsideClassFrom(tree, tree[node].parent)

\* createChunk(node, sourceCode, filePath, language, chunkType): node stands
\* for the text and the lines of the node
createChunkOfNode(node, filePath, language, chunkType) ==
  [node |-> node, chunkType |-> chunkType, language |-> language,
   filePath |-> filePath]

\* the chunk extractChunks pushes for the node itself, if any
ownChunk(tree, node, filePath, language) ==
  LET chunkType == chunkTypeOf(language, tree[node].type) IN
  IF chunkType = undefined THEN <<>>
  ELSE IF language = "python" /\ tree[node].type = "function_definition"
  THEN <<createChunkOfNode(node, filePath, language,
                           IF isInsideClass(tree, node) THEN "method" ELSE "function")>>
  ELSE <<createChunkOfNode(node, filePath, language, chunkType)>>

RECURSIVE extractChunks_SkipNested(_, _, _, _)
RECURSIVE childChunks_SkipNested(_, _, _, _, _)
\* extractChunks that goes into the children of the nodes without a chunk only
extractChunks_SkipNested(tree, node, filePath, language) ==
  LET own == ownChunk(tree, node, filePath, language) IN
  IF Len(own) > 0 THEN own
  ELSE childChunks_SkipNested(tree, node, 1, filePath, language)

childChunks_SkipNested(tree, node, i, filePath, language) ==
  IF i > childCount(tree, node) THEN <<>>
  ELSE extractChunks_SkipNested(tree, child(tree, node, i), filePath, language)
       \o childChunks_SkipNested(tree, node, i + 1, filePath, language)

RECURSIVE extractChunks(_, _, _, _)
RECURSIVE childChunks(_, _, _, _, _)
\* extractChunks(node, sourceCode, filePath, language)
extractChunks(tree, node, filePath, language) ==
  ownChunk(tree, node, filePath, language)
  \o childChunks(tree, node, 1, filePath, language)

\* the loop  for (let i = 0; i < node.childCount; i++)  from its i-th iteration on
childChunks(tree, node, i, filePath, language) ==
  IF i > childCount(tree, node) THEN <<>>
  ELSE extractChunks(tree, child(tree, node, i), filePath, language)
       \o childChunks(tree, node, i + 1, filePath, language)

\* parseFile is about to hand the root of a tree to extractChunks
ExtractCalls == [fn : {"extractChunks"}, tree : Trees, language : Languages]

ExtractInit ==
  /\ disk = [f \in Files |-> 0]
  /\ tableExists = FALSE
  /\ table = EmptyBag
  /\ run = [p \in Procs |-> Idle]
  /\ last = "none"
  /\ fsChanged = FALSE
  /\ arg \in ExtractCalls
  /\ ret = NoReturn
  /\ hashCall = NoHashing
  /\ search = NoSearch
  /\ counter = NoTokenCounter

\* this.extractChunks(tree.rootNode, content, filePath, language)
ExtractChunks ==
  /\ arg.fn = "extractChunks"
  /\ Returns(extractChunks(arg.tree, 1, absolutePath(1), arg.language))

ExtractNext == ExtractChunks

SpecExtract == ExtractInit /\ [][ExtractNext]_vars

\* ------------------------------------------- getTokenCounter / disposeTokenCounter
\* calls of getTokenCounter and disposeTokenCounter made in one run
MaxCounterCalls == 6

\* new TokenCounter(): instance n is the n-th constructed; encoders[n] tells
\* whether its encoder has been freed
NewTokenCounter(c) ==
  [c EXCEPT !.encoders = Append(@, "live"),
            !.tokenCounterInstance = Len(c.encoders) + 1]

\* getTokenCounter(): the instance returned is noted in the log of calls
GetTokenCounter ==
  /\ Len(counter.log) < MaxCounterCalls
  /\ LET c == IF counter.tokenCounterInstance = 0 THEN NewTokenCounter(counter)
              ELSE counter
     IN counter' = [c EXCEPT !.log = Append(@, [call |-> "getTokenCounter",
                                                instance |-> c.tokenCounterInstance])]
  /\ UNCHANGED <<disk, tableExists, table, run, last, fsChanged, arg, ret, hashCall, search>>

\* disposeTokenCounter that frees the encoder and keeps the instance
DisposeTokenCounter_KeepInstance ==
  /\ Len(counter.log) < MaxCounterCalls
  /\ LET live == counter.tokenCounterInstance
         c == IF live # 0 THEN [counter EXCEPT !.encoders[live] = "freed"]
              ELSE counter
     IN counter' = [c EXCEPT !.log = Append(@, [call |-> "disposeTokenCounter",
                                                instance |-> live])]
  /\ UNCHANGED <<disk, tableExists, table, run, last, fsChanged, arg, ret, hashCall, search>>

\* disposeTokenCounter(): the instance whose dispose() ran (0: none) is noted
\* in the log of calls
DisposeTokenCounter ==
  /\ Len(counter.log) < MaxCounterCalls
  /\ LET live == counter.tokenCounterInstance
         c == IF live # 0
              THEN [counter EXCEPT !.encoders[live] = "freed",
                                   !.tokenCounterInstance = 0]
              ELSE counter
     IN counter' = [c EXCEPT !.log = Append(@, [call |-> "disposeTokenCounter",
                                                instance |-> live])]
  /\ UNCHANGED <<disk, tableExists, table, run, last, fsChanged, arg, ret, hashCall, search>>

\* the module has been loaded: no call has been made yet
CounterInit ==
  /\ disk = [f \in Files |-> 0]
  /\ tableExists = FALSE
  /\ table = EmptyBag
  /\ run = [p \in Procs |-> Idle]
  /\ last = "none"
  /\ fsChanged = FALSE
  /\ arg = NoCall
  /\ ret = NoReturn
  /\ hashCall = NoHashing
  /\ search = NoSearch
  /\ counter = NoTokenCounter

CounterNext ==
  \/ GetTokenCounter
  \/ DisposeTokenCounter

SpecCounter == CounterInit /\ [][CounterNext]_vars

\* ------------------------------------------------------ notions for claims
\* the rows a full ingestion of directory d without any failure stores
FullIndex(d) ==
  SetToBag(UNION {
    {Row(c) : c \in Range(chunksWithMetadata(parseFile(ParsedPath(f), d[f]),
                                             calculateFileHash(d[f])))} :
    f \in {g \in Files : d[g] # 0}})

\* --------------------------------------------- two callers of rescanCodebase
\* directories that hold one file at most
SmallDirectories ==
  {d \in [Files -> 0..MaxContent] : Cardinality({f \in Files : d[f] # 0}) <= 1}

\* a small directory has been ingested without a failure; no call is in
\* progress
IndexedInit ==
  /\ disk \in SmallDirectories
  /\ table = FullIndex(disk)
  /\ tableExists = (table # EmptyBag)
  /\ run = [p \in Procs |-> Idle]
  /\ last = "ingest_ok"
  /\ fsChanged = FALSE
  /\ arg = NoCall
  /\ ret = NoReturn
  /\ hashCall = NoHashing
  /\ search = NoSearch
  /\ counter = NoTokenCounter

\* a step of one of two callers that each rescan the codebase
ConcurrentNext ==
  \/ \E p \in Procs : RescanStart(p)
  \/ \E p \in Procs : RescanRetrieve(p)
  \/ \E p \in Procs : RescanScan(p)
  \/ \E p \in Procs : RescanClassify(p)
  \/ \E p \in Procs : RescanDetectDeleted(p)
  \/ \E p \in Procs : RescanDelete(p)
  \/ \E p \in Procs : RescanDeleteDone(p)
  \/ \E p \in Procs : RescanHashFile(p)
  \/ \E p \in Procs : RescanParseFile(p)
  \/ \E p \in Procs : RescanProcessDone(p)
  \/ \E p \in Procs : EmbedBatch(p)
  \/ \E p \in Procs : EmbedReturn(p)
  \/ \E p \in Procs : StoreBatch(p)
  \/ \E p \in Procs : StoreReturn(p)

SpecConcurrent == IndexedInit /\ [][ConcurrentNext]_vars

\* ------------------------------------------- a call and the rescan after it
\* the codebase has never been ingested, or has been ingested without a
\* failure; no call is in progress
FreshOrIndexedInit ==
  /\ disk \in [Files -> 0..MaxContent]
  /\ table \in {EmptyBag, FullIndex(disk)}
  /\ tableExists = (table # EmptyBag)
  /\ run = [p \in Procs |-> Idle]
  /\ last = IF table = EmptyBag THEN "none" ELSE "ingest_ok"
  /\ fsChanged = FALSE
  /\ arg = NoCall
  /\ ret = NoReturn
  /\ hashCall = NoHashing
  /\ search = NoSearch
  /\ counter = NoTokenCounter

\* the first call, an ingestion or a rescan, and the later one, a rescan
First == 1
Later == 2

\* the later rescan is called once the first call has returned its result
LaterRescanStart ==
  /\ run[First].pc = "done"
  /\ RescanStart(Later)

\* a step of the first call or of the rescan that follows it, the directory
\* left alone meanwhile
HealNext ==
  \/ IngestStart(First)
  \/ IngestScan(First)
  \/ IngestHashFile(First)
  \/ IngestParseFile(First)
  \/ HandleReingestion(First)
  \/ RescanStart(First)
  \/ LaterRescanStart
  \/ \E p \in Procs : RescanRetrieve(p)
  \/ \E p \in Procs : RescanScan(p)
  \/ \E p \in Procs : RescanClassify(p)
  \/ \E p \in Procs : RescanDetectDeleted(p)
  \/ \E p \in Procs : RescanDelete(p)
  \/ \E p \in Procs : RescanDeleteDone(p)
  \/ \E p \in Procs : RescanHashFile(p)
  \/ \E p \in Procs : RescanParseFile(p)
  \/ \E p \in Procs : RescanProcessDone(p)
  \/ \E p \in Procs : EmbedBatch(p)
  \/ \E p \in Procs : EmbedReturn(p)
  \/ \E p \in Procs : StoreBatch(p)
  \/ \E p \in Procs : StoreReturn(p)

SpecHeal == FreshOrIndexedInit /\ [][HealNext]_vars

\* --------------------------------------- CodebaseService.listFiles / deleteFile
\* process.platform of the host: on posix an absolute path starts with '/',
\* on win32 with a drive letter
Platforms == {"posix", "win32"}

\* filePath.startsWith('/'): the 0 at the head of a path stands for the
\* directory the codebase was ingested from, in absolute form
startsWithSlash(filePath, platform) ==
  Len(filePath) > 0 /\ filePath[1] = 0 /\ platform = "posix"

\* the path segment '..'
DotDot == 0 - 1

\* filePath.includes('..')
includesDotDot(filePath) == \E k \in DOMAIN filePath : filePath[k] = DotDot

\* !filePath || filePath.trim() === ''
isBlank(filePath) == Len(filePath) = 0

\* listFiles(codebaseName): one FileInfo per filePath of the rows of the table
listFiles(t) ==
  {[filePath |-> path, chunkCount |-> CountAt(t, path)] :
     path \in {r.filePath : r \in DOMAIN t}}

\* what deleteFile is called with: a filePath that listFiles returned, the
\* path of a file relative to the codebase, no path, or a path that climbs out
FilePathArguments(t) ==
  {info.filePath : info \in listFiles(t)}
  \cup {relativePath(f) : f \in Files}
  \cup {<<>>}
  \cup {<<DotDot, f>> : f \in Files}

\* deleteFile throws before it opens the table
deleteFileRejects(filePath, platform) ==
  \/ isBlank(filePath)
  \/ includesDotDot(filePath)
  \/ startsWithSlash(filePath, platform)

\* a codebase that holds a file at least has been ingested without a failure;
\* deleteFile is about to be called
FilesInit ==
  /\ disk \in [Files -> 0..MaxContent]
  /\ table = FullIndex(disk)
  /\ table # EmptyBag
  /\ tableExists = TRUE
  /\ run = [p \in Procs |-> Idle]
  /\ last = "ingest_ok"
  /\ fsChanged = FALSE
  /\ \E filePath \in FilePathArguments(table), platform \in Platforms :
       arg = [fn |-> "deleteFile", filePath |-> filePath, platform |-> platform]
  /\ ret = NoReturn
  /\ hashCall = NoHashing
  /\ search = NoSearch
  /\ counter = NoTokenCounter

\* deleteFile(codebaseName, filePath) throws CodebaseError for the path
DeleteFileRejected ==
  /\ arg.fn = "deleteFile" /\ ~ret.done
  /\ deleteFileRejects(arg.filePath, arg.platform)
  /\ ret' = [done |-> TRUE, value |-> [outcome |-> "CodebaseError"]]
  /\ UNCHANGED <<disk, tableExists, table, run, last, fsChanged, arg, hashCall, search, counter>>

\* deleteFile(codebaseName, filePath) counts the rows, deletes those of the
\* path, counts again and returns the difference
DeleteFile ==
  /\ arg.fn = "deleteFile" /\ ~ret.done
  /\ ~deleteFileRejects(arg.filePath, arg.platform)
  /\ LET beforeCount == BagCardinality(table)
         after == DeleteWhere(table, arg.filePath)
         afterCount == BagCardinality(after)
     IN /\ table' = after
        /\ ret' = [done |-> TRUE,
                   value |-> [outcome |-> "returned",
                              deletedCount |-> beforeCount - afterCount]]
  /\ UNCHANGED <<disk, tableExists, run, last, fsChanged, arg, hashCall, search, counter>>

FilesNext ==
  \/ DeleteFileRejected
  \/ DeleteFile

SpecFiles == FilesInit /\ [][FilesNext]_vars

\* the rows of bag t that were extracted from file f, whatever form their path has
RowsOfFile(t, f) ==
  LET of == {x \in DOMAIN t : FileOf(x.filePath) = f}
  IN [x \in of |-> t[x]]

\* a rescan that is past phase 3 and has not thrown
Classified(r) ==
  r.kind = "rescan" /\ r.pc \in {"delete", "process", "embed", "store", "done"}

\* the files phase 3 put in one of its three lists
InAList(r) == Range(r.added) \cup Range(r.modified) \cup Range(r.unchanged)

\* C1: a rescan that completes without any failure leaves in storage exactly
\* the rows a full ingestion of the current directory stores (every file on
\* disk has the chunks of its current content under its current hash, no
\* other row is left), whatever changed on disk since the previous pass
C1_RescanEqualsFullIngest ==
  \A p \in Procs :
    LET r == run[p] IN
    (r.kind = "rescan" /\ r.pc = "done" /\ r.faults = 0) => table = FullIndex(disk)

\* C1 witness: a failure-free rescan after a change on disk has finished,
\* having deleted stale rows and written new ones
C1_Witness ==
  \E p \in Procs :
    LET r == run[p] IN
    /\ r.kind = "rescan" /\ r.pc = "done" /\ r.faults = 0
    /\ r.prev = "changed"
    /\ r.chunksDeleted > 0 /\ r.chunksAdded > 0
    /\ r.table0 # table

\* C2: phase 3 classifies a hashed file unchanged iff storage holds a
\* fingerprint of that file equal to its current hash, modified iff storage
\* holds one that differs, added iff storage holds none; a stored path is
\* classified deleted iff its file is absent from the scan
C2_ClassificationRule ==
  \A p \in Procs :
    LET r == run[p] IN
    Classified(r) =>
      /\ \A f \in Range(r.files) \ r.hashFailed :
           LET fps == {x.fileHash : x \in DOMAIN RowsOfFile(r.table0, f)}
               h == calculateFileHash(disk[f])
           IN /\ (f \in Range(r.unchanged)) <=> (h \in fps)
              /\ (f \in Range(r.modified)) <=> (fps # {} /\ h \notin fps)
              /\ (f \in Range(r.added)) <=> (fps = {})
      /\ \A path \in StoredPaths(r.table0) :
           (path \in Range(r.deleted)) <=> (FileOf(path) \notin Range(r.files))

\* C3: the filePath of every stored row is the key under which a rescan looks
\* the file up, so a file indexed by the previous call and untouched since is
\* found in storedFileMap, is not classified added, and its stored path is not
\* classified deleted
C3_StoredPathIsLookupKey ==
  /\ \A x \in DOMAIN table : x.filePath = LookupPath(FileOf(x.filePath))
  /\ \A p \in Procs :
       LET r == run[p] IN
       (Classified(r) /\ r.prev \in {"ingest_ok", "rescan_ok"}) =>
         \A f \in Range(r.files) \ r.hashFailed :
           DOMAIN RowsOfFile(r.table0, f) # {} =>
             /\ LookupPath(f) \in DOMAIN r.stored
             /\ f \notin Range(r.added)
             /\ \A path \in Range(r.deleted) : FileOf(path) # f

\* C4: a rescan that follows a completed rescan with no change on disk in
\* between reports no added, modified or deleted file, reports every scanned
\* file unchanged, adds and deletes no chunk and leaves the stored rows as
\* they were
C4_RescanIdempotent ==
  \A p \in Procs :
    LET r == run[p] IN
    (r.kind = "rescan" /\ r.pc = "done" /\ r.prev = "rescan_ok" /\ r.faults = 0) =>
      /\ Len(r.added) = 0 /\ Len(r.modified) = 0 /\ Len(r.deleted) = 0
      /\ Len(r.unchanged) = Len(r.files)
      /\ r.chunksAdded = 0 /\ r.chunksDeleted = 0
      /\ table = r.table0

\* C5: a scanned file whose hash could not be computed is in none of the
\* added, modified, unchanged and deleted lists, and when the rescan is done
\* the rows stored for it are those stored before the rescan
C5_HashFailureExcluded ==
  \A p \in Procs :
    LET r == run[p] IN
    Classified(r) =>
      \A f \in r.hashFailed :
        /\ f \notin InAList(r)
        /\ \A path \in Range(r.deleted) : FileOf(path) # f
        /\ r.pc = "done" => RowsOfFile(table, f) = RowsOfFile(r.table0, f)

\* C6: within one rescan (a) no storage delete or write is issued before every
\* scanned file has been hashed and classified (or skipped as unhashable),
\* (b) no delete is issued after a write, and (c) rows written under a path
\* whose stale rows this rescan deletes are written after that delete
C6_ClassifyThenDeleteThenWrite ==
  \A p \in Procs :
    LET r == run[p] IN
    (r.kind = "rescan" /\ r.ops # <<>>) =>
      /\ \A f \in Range(r.files) : f \in InAList(r) \cup r.hashFailed
      /\ \A i, j \in DOMAIN r.ops :
           (i < j /\ r.ops[i].op = "add") => r.ops[j].op # "del"
      /\ \A j \in DOMAIN r.ops :
           r.ops[j].op = "add" =>
             \A path \in r.ops[j].paths \cap Range(r.toDelete) :
               \E i \in 1..(j - 1) :
                 r.ops[i].op = "del" /\ r.ops[i].paths = {path}

\* C6 witness: a rescan of two files has deleted the stale rows of a path and
\* then written new rows under that same path
C6_Witness ==
  \E p \in Procs :
    LET r == run[p] IN
    /\ r.kind = "rescan" /\ Len(r.files) = 2
    /\ \E i, j \in DOMAIN r.ops :
         /\ i < j /\ r.ops[i].op = "del" /\ r.ops[j].op = "add"
         /\ r.ops[i].paths \subseteq r.ops[j].paths

\* C7: a failing storage delete does not make rescanCodebase throw
C7_DeleteFailureContinues ==
  \A p \in Procs :
    LET r == run[p] IN
    (r.kind = "rescan" /\ r.pc = "failed") => r.fatal # "delete"

\* C8: rescanCodebase throws only when the table is missing or cannot be
\* read, never because a batch of new chunks could not be written
C8_StoreFailureContinues ==
  \A p \in Procs :
    LET r == run[p] IN
    (r.kind = "rescan" /\ r.pc = "failed") => r.fatal # "store"

\* the chunks of file f, as it is on disk, are all in allChunks
ChunksPassedOn(r, f) ==
  \A k \in 1..NumChunksOf(disk[f]) :
    \E n \in DOMAIN r.allChunks :
      /\ FileOf(r.allChunks[n].filePath) = f
      /\ r.allChunks[n].src = disk[f]
      /\ r.allChunks[n].idx = k

\* C9: in an ingestion and in a rescan, when the per-file loop is over every
\* file selected for processing that did not fail has all its chunks in the
\* list handed to embedding and storage, and a call whose only failures were
\* per-file read, hash or parse failures has not thrown
C9_FileFailureSkipsOnlyThatFile ==
  \A p \in Procs :
    LET r == run[p] IN
    /\ r.pc \in {"embed", "store", "done"} =>
         \A f \in Range(r.toProcess) \ r.failedFiles : ChunksPassedOn(r, f)
    /\ (r.failedFiles # {} /\ r.faults = Cardinality(r.failedFiles)) =>
         r.pc # "failed"

\* C9 witness: a rescan in which the first file failed hands the chunks of
\* the second one to embedding
C9_Witness ==
  \E p \in Procs :
    LET r == run[p] IN
    /\ r.kind = "rescan" /\ r.pc = "embed"
    /\ Len(r.toProcess) = 2
    /\ r.failedFiles = {r.toProcess[1]}
    /\ Len(r.allChunks) > 0

StoredFingerprints(r, f) == {x.fileHash : x \in DOMAIN RowsOfFile(r.table0, f)}

\* file f is as it was when it was indexed: storage holds its rows under the
\* hash its content has now, and under no other
UnchangedSinceIndexed(r, f) ==
  StoredFingerprints(r, f) = {calculateFileHash(disk[f])}

\* C11: a rescan issues no delete and no write for an unchanged file (a
\* scanned file stored under the hash it has now, which phase 3 is to classify
\* unchanged): its stored rows stay as they were, no storage operation names
\* its path, and it is not selected for chunking and embedding
C11_UnchangedFileUntouched ==
  \A p \in Procs :
    LET r == run[p] IN
    Classified(r) =>
      \A f \in (Range(r.files) \ r.hashFailed) \cup Range(r.unchanged) :
        (f \in Range(r.unchanged) \/ UnchangedSinceIndexed(r, f)) =>
          /\ f \notin Range(r.toProcess)
          /\ \A j \in DOMAIN r.ops :
               \A path \in r.ops[j].paths : FileOf(path) # f
          /\ RowsOfFile(table, f) = RowsOfFile(r.table0, f)

\* the directory holds N >= 1 files, all indexed with at least one chunk, and
\* exactly one of them, g, has changed content since: storage is the full
\* index of the directory as it was with content c0 in g
OneFileChanged(r, g, c0) ==
  /\ disk[g] # 0 /\ c0 # 0 /\ disk[g] # c0
  /\ r.table0 = FullIndex([disk EXCEPT ![g] = c0])
  /\ \A f \in Files : disk[f] # 0 => DOMAIN RowsOfFile(r.table0, f) # {}

\* C12: a failure-free rescan of N indexed files of which exactly one changed
\* content reports that file modified, none added or deleted, the N - 1
\* others unchanged, chunksDeleted = the chunks stored for the file and
\* chunksAdded = the chunks of its new content
C12_OneModifiedFileCounts ==
  \A p \in Procs :
    LET r == run[p] IN
    (r.kind = "rescan" /\ r.pc = "done" /\ r.faults = 0) =>
      \A g \in Files : \A c0 \in Contents :
        OneFileChanged(r, g, c0) =>
          /\ r.modified = <<g>>
          /\ Len(r.added) = 0 /\ Len(r.deleted) = 0
          /\ Len(r.unchanged) = Len(r.files) - 1
          /\ r.chunksDeleted = NumChunksOf(c0)
          /\ r.chunksAdded = NumChunksOf(disk[g])

\* the directory holds no file, and held none when the previous call, which
\* completed, went over it
EmptySincePreviousCall(r) ==
  /\ \A f \in Files : disk[f] = 0
  /\ r.prev \in {"ingest_ok", "rescan_ok"}

\* C13: a rescan of a directory that was already empty when it was last
\* ingested or rescanned does not throw, and returns a result whose file and
\* chunk counts are all zero
C13_EmptyDirectoryRescan ==
  \A p \in Procs :
    LET r == run[p] IN
    (r.kind = "rescan" /\ EmptySincePreviousCall(r) /\ r.faults = 0) =>
      /\ r.pc # "failed"
      /\ r.pc = "done" =>
           /\ Len(r.added) = 0 /\ Len(r.modified) = 0
           /\ Len(r.unchanged) = 0 /\ Len(r.deleted) = 0
           /\ r.chunksAdded = 0 /\ r.chunksDeleted = 0

\* C14: every chunk a pass produces for a file carries one and the same
\* fileHash, and that fileHash is the fingerprint of the content the chunk
\* was extracted from, also when the file is overwritten between the hash
\* computation and the parser's read
C14_FileHashIsOfParsedContent ==
  \A p \in Procs :
    LET chunks == run[p].allChunks IN
    /\ \A k, n \in DOMAIN chunks :
         chunks[k].filePath = chunks[n].filePath =>
           chunks[k].fileHash = chunks[n].fileHash
    /\ \A k \in DOMAIN chunks :
         chunks[k].fileHash = calculateFileHash(chunks[k].src)

\* C15: whatever ingestions and rescans have run, one after the other, all
\* stored rows that share a filePath carry the same fileHash, so the hash
\* phase 1 of a rescan takes from the first row it meets for a path is the
\* hash of every row of that path
C15_OneFingerprintPerStoredPath ==
  /\ \A x, y \in DOMAIN table :
       x.filePath = y.filePath => x.fileHash = y.fileHash
  /\ \A p \in Procs :
       LET r == run[p] IN
       \A path \in DOMAIN r.stored :
         \A x \in DOMAIN RowsAt(r.table0, path) : x.fileHash = r.stored[path].hash

\* C15 witness: a rescan has completed after a file with several chunks was
\* overwritten; its path, stored under the old hash before, now has several
\* rows again
C15_Witness ==
  \E p \in Procs :
    LET r == run[p] IN
    /\ r.kind = "rescan" /\ r.pc = "done" /\ r.prev = "changed"
    /\ \E path \in DOMAIN r.stored :
         /\ CountAt(table, path) >= 2
         /\ r.stored[path].chunkCount >= 1
         /\ \A x \in DOMAIN RowsAt(table, path) : x.fileHash # r.stored[path].hash

\* splitByTokens has returned
Split(fn) == arg.fn = fn /\ ret.done

\* every line, sentence or word that a bin-packing loop of the split of text
\* takes as an atomic unit has at most maxTokens tokens: a line or a sentence
\* above the budget is split further, so this is a condition on the words of
\* the over-long sentences of the over-long lines
AtomicUnitsFit(text, maxTokens) ==
  \A line \in Range(split(text, NL)) :
    countTokens(line \o <<NL>>) > maxTokens =>
      \A sentence \in Range(matchSentences(line)) :
        countTokens(sentence) > maxTokens =>
          \A word \in Range(splitWhitespace(sentence)) :
            countTokens(word) <= maxTokens

\* every returned string has at most maxTokens tokens
WithinBudget == \A k \in DOMAIN ret.value : countTokens(ret.value[k]) <= arg.maxTokens

RECURSIVE concat(_)
\* the strings of parts one after the other
concat(parts) == IF Len(parts) = 0 THEN <<>> ELSE Head(parts) \o concat(Tail(parts))

NotSpace(c) == ~IsSpace(c)

\* the characters of s that are not separators (the newlines and blanks that
\* split removes and join re-inserts), in order
NonSeparators(s) == SelectSeq(s, NotSpace)

\* C17: with overlapTokens = 0 the strings splitByTokens returns, one after
\* the other, hold the non-separator characters of text, each once and in
\* order: none is lost, none is doubled
C17_ConcatenationReproducesText ==
  (Split("splitByTokens") /\ arg.overlapTokens = 0) =>
    NonSeparators(concat(ret.value)) = NonSeparators(arg.text)

\* a non-empty end of string a is the beginning of string b
SharesOverlap(a, b) ==
  \E n \in 1..Min(Len(a), Len(b)) :
    SubSeq(a, Len(a) - n + 1, Len(a)) = SubSeq(b, 1, n)

\* C18: with overlapTokens > 0 every two consecutive strings splitByTokens
\* returns share a non-empty substring, the later one beginning with what the
\* earlier one ends with
C18_ConsecutivePartsOverlap ==
  (Split("splitByTokens") /\ arg.overlapTokens > 0) =>
    \A k \in 1..(Len(ret.value) - 1) : SharesOverlap(ret.value[k], ret.value[k + 1])

RECURSIVE lineTokensOf(_)
\* the tokens of the lines in lines, counted as getOverlapLines counts them
lineTokensOf(lines) ==
  IF Len(lines) = 0 THEN 0
  ELSE countTokens(Head(lines) \o <<NL>>) + lineTokensOf(Tail(lines))

\* C19: the lines getOverlapLines returns total at most overlapTokens tokens
C19_OverlapWithinTarget ==
  Split("getOverlapLines") => lineTokensOf(ret.value) <= arg.overlapTokens

\* C20: splitOversizedChunks turns a unit of at most maxChunkTokens tokens
\* into exactly one chunk, the unit itself with its content and kind, and a
\* unit that splitByTokens splits into N >= 2 strings into N chunks, in the
\* order of the strings, the i-th of type <kind>_part_<i> and with the
\* unit's filePath and language
C20_SplitChunksNamedInOrder ==
  Split("splitOversizedChunks") =>
    LET units == RawChunks(arg.text)
        unit == units[1]
        fits == countTokens(unit.content) <= arg.maxTokens
        parts == splitByTokens(unit.content, arg.maxTokens, arg.overlapTokens)
        N == IF fits THEN 1 ELSE Len(parts)
    IN /\ Len(ret.value) = N + 1
       /\ ret.value[N + 1] = units[2]
       /\ fits => ret.value[1] = unit
       /\ (~fits /\ N >= 2) =>
            \A i \in 1..N :
              /\ ret.value[i].content = parts[i]
              /\ ret.value[i].chunkType = <<"class", "part", i>>
              /\ ret.value[i].filePath = unit.filePath
              /\ ret.value[i].language = unit.language

\* C20 witness: a class over the budget came back as three parts or more,
\* followed by the method that fits
C20_Witness ==
  /\ Split("splitOversizedChunks")
  /\ Len(ret.value) >= 4
  /\ ret.value[1].chunkType = <<"class", "part", 1>>
  /\ ret.value[Len(ret.value)].chunkType = <<"method">>

\* ---- the documented example of a large class ----

\* the call of the example has returned
Example == arg \in ExampleCalls /\ ret.done

\* the chunks the class of the example came back as: all but the method
ExampleParts == SubSeq(ret.value, 1, Len(ret.value) - 1)

\* the parts are named class_part_1 .. class_part_n and none is over the budget
NamedAndWithin(parts, n) ==
  /\ Len(parts) = n
  /\ \A i \in 1..n :
       /\ parts[i].chunkType = <<"class", "part", i>>
       /\ countTokens(parts[i].content) <= ExampleMaxChunkTokens

Tasks(h) == {<<b, k>> : b \in 1..Len(h.batches), k \in 1..MaxPaths} \cap
            {t \in (1..MaxPaths) \X (1..MaxPaths) : t[2] <= Len(h.batches[t[1]])}

\* the path task t hashes
PathOf(h, t) == h.batches[t[1]][t[2]]

\* the input paths of which some hash succeeded
Succeeded(h) == {r.filePath : r \in h.resolved}

\* C22: calculateFileHashes returns a map whose keys are exactly the input
\* paths whose hashing succeeded, each mapped to the hash of its own file; a
\* failure on one file does not abort the call (every input path has been
\* hashed when it returns) and removes or alters no other file's entry,
\* whatever batch the failing file is in
C22_FailedHashesOnlyOmitted ==
  hashCall.pc = "returned" =>
    /\ {PathOf(hashCall, t) : t \in hashCall.settled} = Range(hashCall.filePaths)
    /\ Cardinality(hashCall.settled) = Len(hashCall.filePaths)
    /\ DOMAIN hashCall.results = Succeeded(hashCall)
    /\ \A p \in DOMAIN hashCall.results :
         hashCall.results[p] = calculateFileHash(hashCall.files[p])

\* C22 witness: the call returned a map with entries from two batches, after
\* a hash failed in the first batch before a task of that batch that succeeded
C22_Witness ==
  /\ hashCall.pc = "returned"
  /\ <<1, 1>> \in hashCall.settled /\ <<1, 1>> \notin hashCall.written
  /\ <<1, 2>> \in hashCall.written
  /\ <<2, 1>> \in hashCall.written
  /\ PathOf(hashCall, <<1, 2>>) \in DOMAIN hashCall.results
  /\ PathOf(hashCall, <<2, 1>>) \in DOMAIN hashCall.results
  /\ PathOf(hashCall, <<1, 1>>) \notin DOMAIN hashCall.results

\* C23: calculateFileHashes(paths, c) with c >= 1 never has more than c hashes
\* in flight; batches hold at most c files; no hash of a batch has started
\* unless every hash of the batches before it has settled; an entry is in the
\* result map only if every task of its batch has settled
C23_AtMostConcurrencyInFlight ==
  hashCall.pc # "none" =>
    /\ Cardinality(hashCall.started \ hashCall.settled) <= hashCall.concurrency
    /\ \A b \in DOMAIN hashCall.batches :
         Len(hashCall.batches[b]) <= hashCall.concurrency
    /\ \A t \in hashCall.started : \A u \in Tasks(hashCall) :
         u[1] < t[1] => u \in hashCall.settled
    /\ \A t \in hashCall.written : \A u \in Tasks(hashCall) :
         u[1] = t[1] => u \in hashCall.settled
    /\ DOMAIN hashCall.results = {PathOf(hashCall, t) : t \in hashCall.written}

\* C23 witness: with concurrency 2 the hash of the second batch is in flight,
\* the two results of the first batch written
C23_Witness ==
  /\ hashCall.pc = "batch"
  /\ hashCall.concurrency = 2
  /\ hashCall.started \ hashCall.settled = {<<2, 1>>}
  /\ hashCall.written = {<<1, 1>>, <<1, 2>>}

PhaseOrder ==
  <<"Retrieving stored hashes", "Scanning filesystem", "Detecting changes",
    "Deleting stale chunks", "Processing files", "Generating embeddings",
    "Storing chunks">>

\* the place of a phase in the order
Rank(phase) == CHOOSE k \in DOMAIN PhaseOrder : PhaseOrder[k] = phase

\* the phases call r has executed so far, in part at least
Executed(r) ==
  {"Retrieving stored hashes"}
  \cup (IF r.pc \in {"retrieve", "failed"} /\ r.fatal \in {"none", "notfound", "query"}
        THEN {} ELSE {"Scanning filesystem"})
  \cup (IF r.pc \in {"classify", "delete", "process", "embed", "store", "done"}
           \/ r.fatal \in {"delete", "store"}
        THEN {"Detecting changes"} ELSE {})
  \cup (IF \E k \in DOMAIN r.ops : r.ops[k].op = "del"
        THEN {"Deleting stale chunks"} ELSE {})
  \cup (IF r.allChunks # <<>> \/ r.failedFiles # {}
        THEN {"Processing files"} ELSE {})
  \cup (IF r.pc \in {"store", "done"} /\ r.allChunks # <<>>
        THEN {"Generating embeddings"} ELSE {})
  \cup (IF \E k \in DOMAIN r.ops : r.ops[k].op = "add"
        THEN {"Storing chunks"} ELSE {})

\* C25: rescanCodebase reports its phases in the order retrieving stored
\* hashes, scanning filesystem, detecting changes, deleting stale chunks,
\* processing changed files, generating embeddings, storing chunks: every
\* phase it executes is reported (the deleting phase whenever stale chunks are
\* deleted) and no phase is reported after a later one
C25_PhasesReportedInOrder ==
  \A p \in Procs :
    LET r == run[p] IN
    r.kind = "rescan" =>
      /\ \A i, j \in DOMAIN r.progress :
           i < j => Rank(r.progress[i]) < Rank(r.progress[j])
      /\ r.pc = "done" => Executed(r) \subseteq Range(r.progress)

\* ---- two interleaved rescans ----

\* both calls are rescans that ran to their end without any failure
BothFinished ==
  \A p \in Procs :
    run[p].kind = "rescan" /\ run[p].pc = "done" /\ run[p].faults = 0

SearchEnded == search.pc # "none" /\ search.ret.outcome # "none"

\* the call found an answer from the vector store for its parameters, not
\* cleared since and cached less than cacheTimeoutSeconds before
HadFreshAnswer(r) ==
  r.earlier # None /\ r.startTime - r.earlier.timestamp < cacheTimeoutSeconds

\* C27: a search whose query, codebaseName, language and effective maxResults
\* equal those of an earlier search answered from the vector store less than
\* cacheTimeoutSeconds ago returns the earlier result without calling the
\* embedding service or querying a collection; a result cached before
\* clearCache is served to no search after it
C27_FreshAnswerServedFromCache ==
  SearchEnded =>
    LET r == search.ret IN
    /\ HadFreshAnswer(r) =>
         /\ r.outcome = "cached"
         /\ r.results = r.earlier.results
         /\ ~r.embedded /\ ~r.queried
    /\ r.outcome = "cached" => r.earlier # None /\ r.results = r.earlier.results

\* C27 witness: a search for a language that leaves maxResults out was
\* answered from the cache with the non-empty result of an earlier search
C27_Witness ==
  /\ SearchEnded
  /\ search.ret.outcome = "cached"
  /\ HadFreshAnswer(search.ret)
  /\ search.ret.results.results # <<>>
  /\ search.ret.params.maxResults = 0
  /\ search.ret.results.limit = defaultMaxResults
  /\ search.ret.params.language = "ts"

\* C28: whenever the embedding service reports that it is not initialized,
\* search rejects with a SearchError, for every parameter set and after any
\* sequence of earlier searches
C28_NotInitializedRejects ==
  SearchEnded =>
    (search.ret.reportedNotInitialized => search.ret.outcome = "SearchError")

\* ---- chunk counts of a rescan ----

\* the chunk counts phase 1 read for the paths phase 4 deletes, summed
StoredCountOf(r) ==
  LET F[k \in 0..Len(r.toDelete)] ==
        IF k = 0 THEN 0
        ELSE F[k - 1] + (IF r.toDelete[k] \in DOMAIN r.stored
                         THEN r.stored[r.toDelete[k]].chunkCount ELSE 0)
  IN F[Len(r.toDelete)]

\* the rows storeChunks has written when the call ends: one per chunk that
\* came back from generateEmbeddingsBatch
RowsWritten(r) == Len(r.emb)

\* the rows the call has removed from the table it found
RowsRemoved(r) == BagCardinality(r.table0) + RowsWritten(r) - BagCardinality(table)

\* C29: the chunk counts of a RescanResult are storage deltas: chunksDeleted
\* is the sum of the chunk counts read in the stored-hash phase for the paths
\* classified modified or deleted and equals the number of rows removed;
\* chunksAdded is the number of rows written, also when the embedding of some
\* chunks failed
C29_ChunkCountsAreStorageDeltas ==
  \A p \in Procs :
    LET r == run[p] IN
    (r.kind = "rescan" /\ r.pc = "done") =>
      /\ r.chunksDeleted = StoredCountOf(r)
      /\ r.chunksDeleted = RowsRemoved(r)
      /\ r.chunksAdded = RowsWritten(r)

\* ---- generateEmbeddingsBatch ----

\* the chunks for which a vector was produced, in the order of the input,
\* each with the vector of its own content
WithVectors(chunks, noVector) ==
  LET F[k \in 0..Len(chunks)] ==
        IF k = 0 THEN <<>>
        ELSE IF k \in noVector THEN F[k - 1]
             ELSE Append(F[k - 1], WithEmbedding(chunks[k], Vector(chunks[k])))
  IN F[Len(chunks)]

\* generateEmbeddingsBatch has returned to call r
EmbeddingsReturned(r) == r.kind # "none" /\ r.pc \in {"store", "done"}

\* C30: generateEmbeddingsBatch returns, in input order, exactly the chunks
\* for which a vector was produced, each paired with the vector at its own
\* index in its own batch: a chunk without a vector is dropped alone, a
\* batch whose call threw is dropped whole, and the batches after it are
\* still processed
C30_EmbeddedChunksKeepTheirVectors ==
  \A p \in Procs :
    LET r == run[p] IN
    EmbeddingsReturned(r) => r.emb = WithVectors(r.allChunks, r.noVector)

\* C30 witness: of three chunks in two batches the first got no vector; the
\* second chunk of its batch and the chunk of the next batch were returned
C30_Witness ==
  \E p \in Procs :
    /\ EmbeddingsReturned(run[p])
    /\ Len(run[p].allChunks) = 3
    /\ run[p].noVector = {1}
    /\ Len(run[p].emb) = 2

\* ---- extractChunks ----

\* extractChunks has returned
Extracted == arg.fn = "extractChunks" /\ ret.done

\* the nodes from the root down to node n
RECURSIVE PathTo(_, _)
PathTo(tree, n) ==
  IF n = 0 THEN <<>> ELSE Append(PathTo(tree, tree[n].parent), n)

\* node a comes before node b in the pre-order of the tree: a is an ancestor
\* of b, or where their paths from the root part, a's goes to the earlier child
PreOrderBefore(tree, a, b) ==
  LET p == PathTo(tree, a)
      q == PathTo(tree, b)
  IN \/ Len(p) < Len(q) /\ \A k \in 1..Len(p) : p[k] = q[k]
     \/ \E k \in 1..Min(Len(p), Len(q)) :
          /\ \A j \in 1..(k - 1) : p[j] = q[j]
          /\ p[k] < q[k]

\* the nodes whose type has an entry in the table of the language
MappedNodes(tree, language) ==
  {n \in DOMAIN tree : tree[n].type \in DOMAIN NODE_TYPE_MAPPINGS[language]}

\* C31: extractChunks emits exactly one unit for every node whose type has an
\* entry in the mapping table of the language, none for any other node, the
\* units in the pre-order of their nodes; a mapped node inside a mapped node
\* has its own unit; the call returns for every tree (no error)
C31_OneUnitPerMappedNodeInPreOrder ==
  /\ arg.fn = "extractChunks" /\ ~ret.done => ENABLED ExtractChunks
  /\ Extracted =>
       LET units == ret.value
           mapped == MappedNodes(arg.tree, arg.language)
       IN /\ Len(units) = Cardinality(mapped)
          /\ {units[i].node : i \in 1..Len(units)} = mapped
          /\ \A i, j \in 1..Len(units) :
               i < j => PreOrderBefore(arg.tree, units[i].node, units[j].node)

\* C31 witness: under an unmapped root, a class with a function nested in it
\* and a later function beside it came back as three units, the nested one
\* between the two others although its node was numbered last
C31_Witness ==
  /\ Extracted
  /\ arg.language = "python"
  /\ Len(arg.tree) = 4
  /\ arg.tree[1].type = "block"
  /\ arg.tree[2] = [type |-> "class_definition", parent |-> 1]
  /\ arg.tree[3] = [type |-> "function_definition", parent |-> 1]
  /\ arg.tree[4] = [type |-> "function_definition", parent |-> 2]
  /\ [i \in 1..Len(ret.value) |-> ret.value[i].node] = <<2, 4, 3>>

\* node a is on the parent chain of node n
RECURSIVE OnParentChain(_, _, _)
OnParentChain(tree, a, n) ==
  /\ tree[n].parent # 0
  /\ \/ tree[n].parent = a
     \/ OnParentChain(tree, a, tree[n].parent)

\* C32: for Python a function_definition node is emitted with kind method iff
\* some node on its parent chain is a class_definition, and with kind function
\* otherwise; every other unit has the kind the mapping table of its language
\* gives for the type of its node
C32_PythonMethodIffInsideClass ==
  Extracted =>
    \A i \in 1..Len(ret.value) :
      LET unit == ret.value[i]
          type == arg.tree[unit.node].type
      IN IF arg.language = "python" /\ type = "function_definition"
         THEN unit.chunkType =
                IF \E a \in DOMAIN arg.tree :
                     /\ OnParentChain(arg.tree, a, unit.node)
                     /\ arg.tree[a].type = "class_definition"
                THEN "method" ELSE "function"
         ELSE /\ type \in DOMAIN NODE_TYPE_MAPPINGS[arg.language]
              /\ unit.chunkType = NODE_TYPE_MAPPINGS[arg.language][type]

\* C32 witness: a Python function at the root is a function, and a function
\* two levels below a class nested in it is a method
C32_Witness ==
  /\ Extracted
  /\ arg.language = "python"
  /\ Len(arg.tree) = 4
  /\ arg.tree[1].type = "function_definition"
  /\ arg.tree[2] = [type |-> "class_definition", parent |-> 1]
  /\ arg.tree[3] = [type |-> "block", parent |-> 2]
  /\ arg.tree[4] = [type |-> "function_definition", parent |-> 3]
  /\ [i \in 1..Len(ret.value) |-> ret.value[i].chunkType]
       = <<"function", "class", "method">>

\* ---- line ranges of the parts ----

\* the unit of the call (the class) and the chunks it came back as
SplitUnit == RawChunks(arg.text)[1]
UnitParts == SubSeq(ret.value, 1, Len(ret.value) - 1)

\* a call of splitOversizedChunks has returned and the unit was split
UnitWasSplit ==
  /\ arg.fn = "splitOversizedChunks" /\ ret.done
  /\ countTokens(arg.text) > arg.maxTokens

\* the last line of the text of part a is the first line of the text of part b
SharesLine(a, b) ==
  LET la == split(a.content, NL)
      lb == split(b.content, NL)
  IN la[Len(la)] = lb[1]

\* C33: when a unit is split, the line range of every part lies within the
\* line range of the unit, the last part ends at the unit's endLine, and
\* under an overlap a part that starts with the line its predecessor ends
\* with has a range that overlaps the predecessor's
C33_PartRangesWithinUnit ==
  UnitWasSplit =>
    LET parts == UnitParts IN
    /\ \A i \in 1..Len(parts) :
         /\ SplitUnit.startLine <= parts[i].startLine
         /\ parts[i].startLine <= parts[i].endLine
         /\ parts[i].endLine <= SplitUnit.endLine
    /\ Len(parts) > 0 => parts[Len(parts)].endLine = SplitUnit.endLine
    /\ \A i \in 1..(Len(parts) - 1) :
         arg.overlapTokens > 0 /\ SharesLine(parts[i], parts[i + 1])
           => parts[i + 1].startLine <= parts[i].endLine

\* C34: every string splitByTokens returns is non-empty, for every non-empty
\* text and maxTokens > 0, also when a blank line precedes an over-long line
C34_NoEmptyPart ==
  (arg.fn = "splitByTokens" /\ ret.done /\ Len(arg.text) > 0 /\ arg.maxTokens > 0) =>
    \A i \in 1..Len(ret.value) : Len(ret.value[i]) > 0

\* ---- token counter singleton ----

\* the calls of getTokenCounter among the first n calls, and the place of the
\* last call of disposeTokenCounter among them (0: none)
GetsUpTo(n) == {i \in 1..n : counter.log[i].call = "getTokenCounter"}
LastDisposeUpTo(n) ==
  LET d == {i \in 1..n : counter.log[i].call = "disposeTokenCounter"}
  IN IF d = {} THEN 0 ELSE CHOOSE i \in d : \A j \in d : j <= i

\* C35: getTokenCounter returns the same instance on every call until
\* disposeTokenCounter is called; disposeTokenCounter frees the encoder of
\* that instance, and the next getTokenCounter returns an instance never
\* returned before, its encoder not freed; disposeTokenCounter with no live
\* instance disposes of nothing and frees no encoder
C35_SingletonUntilDisposed ==
  LET log == counter.log IN
  /\ \A i, j \in GetsUpTo(Len(log)) :
       (i < j /\ LastDisposeUpTo(j) < i) => log[i].instance = log[j].instance
  /\ \A j \in GetsUpTo(Len(log)) :
       /\ log[j].instance \in 1..Len(counter.encoders)
       /\ \A i \in GetsUpTo(LastDisposeUpTo(j)) : log[i].instance # log[j].instance
       /\ LastDisposeUpTo(Len(log)) < j => counter.encoders[log[j].instance] = "live"
  /\ \A d \in 1..Len(log) :
       log[d].call = "disposeTokenCounter" =>
         IF d > 1 /\ log[d - 1].call = "getTokenCounter"
         THEN /\ log[d].instance = log[d - 1].instance
              /\ counter.encoders[log[d].instance] = "freed"
         ELSE log[d].instance = 0
  /\ {n \in 1..Len(counter.encoders) : counter.encoders[n] = "freed"}
       = {log[d].instance : d \in {i \in 1..Len(log) :
                                     /\ log[i].call = "disposeTokenCounter"
                                     /\ log[i].instance # 0}}
  /\ Len(counter.encoders) = Cardinality({log[i].instance : i \in GetsUpTo(Len(log))})

\* C35 witness: two calls returned the first instance, it was disposed of, a
\* second dispose found nothing, and the next call returned a second instance
C35_Witness ==
  /\ Len(counter.log) = 5
  /\ [i \in 1..5 |-> counter.log[i].call]
       = <<"getTokenCounter", "getTokenCounter", "disposeTokenCounter",
           "disposeTokenCounter", "getTokenCounter">>
  /\ [i \in 1..5 |-> counter.log[i].instance] = <<1, 1, 1, 0, 2>>
  /\ counter.encoders = <<"freed", "live">>
  /\ counter.tokenCounterInstance = 2

\* ---- deleteFile ----

\* a call of deleteFile has ended
FileDeleted == arg.fn = "deleteFile" /\ ret.done

\* C36: deleteFile called with a filePath that listFiles returns removes
\* exactly the rows stored under that filePath, returns their number and
\* leaves the rows of every other path as they were; a call rejected for its
\* path removes nothing
C36_DeleteFileRemovesListedFile ==
  FileDeleted =>
    LET before == FullIndex(disk) IN
    /\ arg.filePath \in {info.filePath : info \in listFiles(before)} =>
         /\ ret.value.outcome = "returned"
         /\ ret.value.deletedCount = CountAt(before, arg.filePath)
         /\ ret.value.deletedCount > 0
         /\ RowsAt(table, arg.filePath) = EmptyBag
         /\ \A path \in {r.filePath : r \in DOMAIN before} \ {arg.filePath} :
              RowsAt(table, path) = RowsAt(before, path)
    /\ ret.value.outcome = "CodebaseError" => table = before

\* ---- healing of a partly embedded file ----

\* in call r the embedding failed for some but not all chunks of file f
PartlyEmbedded(r, f) ==
  LET of == {k \in DOMAIN r.allChunks : FileOf(r.allChunks[k].filePath) = f}
  IN /\ r.pc = "done"
     /\ of \cap r.noVector # {}
     /\ of \ r.noVector # {}

\* the later rescan has run to its end without any failure
LaterRescanDone ==
  /\ run[Later].kind = "rescan" /\ run[Later].pc = "done"
  /\ run[Later].faults = 0

Reingestion(r) == r.kind = "ingest" /\ r.table0 # EmptyBag

\* the rows call r has built from the chunks that got a vector
NewRows(r) == {Row(r.emb[k]) : k \in DOMAIN r.emb}

\* C38: if ingestCodebase of an already indexed codebase fails with an
\* IngestionError the rows of the previous ingestion are in storage as they
\* were, and if it succeeds the table holds rows of the new ingestion only,
\* each once
C38_FailedReingestKeepsPreviousRows ==
  \A p \in Procs :
    LET r == run[p] IN
    Reingestion(r) =>
      /\ r.pc = "failed" => table = r.table0
      /\ r.pc = "done" => \A x \in DOMAIN table : x \in NewRows(r) /\ table[x] = 1

\* ---- the lists of a RescanResult ----

\* rescanCodebase has built its RescanResult
RescanResultBuilt(r) == r.kind = "rescan" /\ r.pc = "done"

\* the list holds no file twice
NoRepeat(list) == Cardinality(Range(list)) = Len(list)

\* C39: in every RescanResult the added, modified and unchanged files are
\* pairwise disjoint subsets of the scanned supported files, no deleted path
\* names one of them, and filesAdded + filesModified + filesUnchanged is at
\* most filesScanned, equal to it exactly when no scanned file failed to hash
C39_ResultListsDisjoint ==
  \A p \in Procs :
    LET r == run[p] IN
    RescanResultBuilt(r) =>
      /\ NoRepeat(r.added) /\ NoRepeat(r.modified) /\ NoRepeat(r.unchanged)
      /\ Range(r.added) \cap Range(r.modified) = {}
      /\ Range(r.added) \cap Range(r.unchanged) = {}
      /\ Range(r.modified) \cap Range(r.unchanged) = {}
      /\ InAList(r) \subseteq Range(r.files)
      /\ \A path \in Range(r.deleted) : FileOf(path) \notin InAList(r)
      /\ Len(r.added) + Len(r.modified) + Len(r.unchanged) <= Len(r.files)
      /\ (Len(r.added) + Len(r.modified) + Len(r.unchanged) = Len(r.files))
           <=> (r.hashFailed = {})

\* ---- termination of calculateFileHashes ----

\* C40: calculateFileHashes terminates and returns a map for every list of
\* paths and every integer concurrency, 0 and negative values included
C40_HashingTerminates == <>(hashCall.pc = "returned")

====
